---- MODULE Spec2Model ----
(***************************************************************************)
(* Model of the retrieval core of app/utils/document_processor.py          *)
(* (LegalDocumentProcessor) and of SecureDocumentProcessor._add_to_dataset *)
(* in app/utils/secure_processor.py.                                       *)
(*                                                                         *)
(* A text is a sequence of characters; a character is a one-character      *)
(* string (the section sign, which is not ASCII, is the string "sect").    *)
(* Positions inside operators that mirror Python code are 0-based, as in   *)
(* the source; At(s, i) reads s[i].                                        *)
(***************************************************************************)
EXTENDS Integers, Sequences, FiniteSets, TLC

VARIABLES
    \* ---- _chunk_text ----
    texts,                \* argument: list of texts
    chunk_size,           \* argument
    chunk_overlap,        \* argument
    cpc,                  \* position in _chunk_text
    text_idx,             \* index of the text being chunked (0-based)
    sections,             \* sections of the current text still to process
    subsections,          \* subsections of the current section still to process
    start,                \* window start of the fixed-width fallback
    iters,                \* fallback iterations done so far in this call
    chunks_with_metadata, \* the list built by _chunk_text
    provenance,           \* history: for each chunk, the unit it was cut from
    units,                \* history: number of units handed to the fallback
    final_chunks,         \* the value returned
    chunk_calls,          \* history: _chunk_text calls made with these arguments
    previous_chunks,      \* history: what the call before this one built and returned
    \* ---- query_dataset ----
    store,                \* the collection, its entries in order of distance to the query
    query,                \* argument
    n_results,            \* argument
    use_hybrid_search,    \* argument
    use_reranking,        \* argument
    qpc,                  \* position in query_dataset
    all_results,          \* the merged result lists
    keywords,             \* keywords[:3]
    kw_idx,               \* index of the next keyword (0-based)
    kw_failed,            \* history: the keywords whose sub-query raised
    merged,               \* history: all_results when the keyword loop ended
    rerank_outcome,       \* history: what the reranking block did
    rerank_scores,        \* history: the scores predict returned, by candidate position
    results,              \* the value returned
    store_queries,        \* history: the collection.query calls of this call
    calls,                \* history: query_dataset calls made by this process
    loads,                \* history: CrossEncoder models constructed by this process
    \* ---- create_dataset and _add_to_dataset ----
    documents_dir,        \* for each readable file, the chunks process_document returns
    callers,              \* the processes that index into the collection
    indexer,              \* for each process, the locals of its indexing call
    uuid_count,           \* number of uuid4 values drawn so far
    collection,           \* the entries of the Chroma collection, in the order stored
    add_calls             \* history: the collection.add calls, in the order made

chunkVars == <<texts, chunk_size, chunk_overlap, cpc, text_idx, sections,
               subsections, start, iters, chunks_with_metadata, provenance,
               units, final_chunks, chunk_calls, previous_chunks>>

queryVars == <<store, query, n_results, use_hybrid_search, use_reranking, qpc,
               all_results, keywords, kw_idx, kw_failed, merged, rerank_outcome,
               rerank_scores, results, store_queries, calls, loads>>

indexVars == <<documents_dir, callers, indexer, uuid_count, collection, add_calls>>

vars == <<chunkVars, queryVars, indexVars>>
notChunkVars == <<queryVars, indexVars>>
notQueryVars == <<chunkVars, indexVars>>
notIndexVars == <<chunkVars, queryVars>>

NoPrevious == [chunks_with_metadata |-> <<>>, final_chunks |-> <<>>]

NoResults == [ids |-> <<>>, documents |-> <<>>, metadatas |-> <<>>, distances |-> <<>>]

\* no _chunk_text call is in progress
ChunkIdle ==
    /\ texts = <<>>
    /\ chunk_size = 1000
    /\ chunk_overlap = 200
    /\ cpc = "idle"
    /\ text_idx = 0
    /\ sections = <<>>
    /\ subsections = <<>>
    /\ start = 0
    /\ iters = 0
    /\ chunks_with_metadata = <<>>
    /\ provenance = <<>>
    /\ units = 0
    /\ final_chunks = <<>>
    /\ chunk_calls = 0
    /\ previous_chunks = NoPrevious

\* no query_dataset call has been made
QueryIdle ==
    /\ query = <<>>
    /\ n_results = 5
    /\ use_hybrid_search = TRUE
    /\ use_reranking = TRUE
    /\ qpc = "idle"
    /\ all_results = NoResults
    /\ keywords = <<>>
    /\ kw_idx = 0
    /\ kw_failed = {}
    /\ merged = NoResults
    /\ rerank_outcome = "none"
    /\ rerank_scores = <<>>
    /\ results = NoResults
    /\ store_queries = <<>>
    /\ calls = 0
    /\ loads = 0

\* the processes that may index into the one collection
Procs == {1, 2}

\* the locals of a process that has not called create_dataset or _add_to_dataset
NoCall ==
    [pc |-> "idle", kind |-> "none", file_paths |-> <<>>, file_no |-> 0,
     filename |-> <<>>, documents |-> <<>>, metadatas |-> <<>>, ids |-> <<>>,
     i |-> 0, doc_count |-> 0, chunk_count |-> 0, returned |-> <<>>]

\* nothing has been indexed and no indexing call is in progress
IndexIdle ==
    /\ documents_dir = <<>>
    /\ callers = {}
    /\ indexer = [p \in Procs |-> NoCall]
    /\ uuid_count = 0
    /\ collection = <<>>
    /\ add_calls = <<>>

(***************************************************************************)
(* Characters and Python string primitives                                 *)
(***************************************************************************)
LowerCase == <<"a","b","c","d","e","f","g","h","i","j","k","l","m",
               "n","o","p","q","r","s","t","u","v","w","x","y","z">>
UpperCase == <<"A","B","C","D","E","F","G","H","I","J","K","L","M",
               "N","O","P","Q","R","S","T","U","V","W","X","Y","Z">>
Digits == {"0","1","2","3","4","5","6","7","8","9"}
SectionSign == "sect"

Range(s) == {s[i] : i \in 1..Len(s)}
Min(S) == CHOOSE x \in S : \A y \in S : x <= y
Max(S) == CHOOSE x \in S : \A y \in S : x >= y

\* the character classes \s, \d, [a-z] (ignoring case), \w and [\.\d]
SpaceChars == {" ", "\n", "\t"}
LetterChars == Range(LowerCase) \cup Range(UpperCase)
WordChars == LetterChars \cup Digits \cup {"_"}
DotOrDigitChars == {"."} \cup Digits
IsSpace(c) == c \in SpaceChars
IsDigit(c) == c \in Digits
IsLetter(c) == c \in LetterChars
\* str.lower() on one character
Lower(c) == IF \E i \in 1..26 : UpperCase[i] = c
            THEN LowerCase[CHOOSE i \in 1..26 : UpperCase[i] = c]
            ELSE c

At(s, i) == s[i + 1]
Rep(c, n) == [i \in 1..n |-> c]

\* Python s[a:b], negative indices counted from the end
SliceIndex(n, i) == IF i < 0 THEN (IF n + i < 0 THEN 0 ELSE n + i)
                    ELSE (IF i > n THEN n ELSE i)
Slice(s, a, b) == SubSeq(s, SliceIndex(Len(s), a) + 1, SliceIndex(Len(s), b))

\* str.strip()
Strip(s) ==
    LET keep == {i \in 1..Len(s) : ~IsSpace(s[i])}
    IN  IF keep = {} THEN <<>> ELSE SubSeq(s, Min(keep), Max(keep))

(***************************************************************************)
(* The three regular expressions of _chunk_text.  Each XxxEnd(s, p) is the *)
(* end of the match that starts at p, or -1 when none starts there.        *)
(* Every quantifier of the patterns is greedy and is followed by a         *)
(* character class disjoint from its own where it must be, so the match at *)
(* p is the one that takes each maximal run.                               *)
(***************************************************************************)
\* first position q >= p whose character is not in class cls (Len(s) if none)
RunEnd(s, p, cls) ==
    LET stop == {q \in p..(Len(s) - 1) : At(s, q) \notin cls}
    IN  IF stop = {} THEN (IF p > Len(s) THEN p ELSE Len(s)) ELSE Min(stop)

\* s has word w at p, ignoring case (re.IGNORECASE)
HasWordAt(s, p, w) ==
    /\ p + Len(w) <= Len(s)
    /\ \A k \in 1..Len(w) : Lower(At(s, p + k - 1)) = Lower(w[k])

SectionWords == { <<"a","r","t","i","c","l","e">>,
                  <<"s","e","c","t","i","o","n">>,
                  <<"r","e","g","u","l","a","t","i","o","n">>,
                  <<SectionSign>> }

\* (Article|Section|Regulation|ARTICLE|SECTION|sect)\s+(\d+[\.\d]*\w*)
SectionNumStart(s, p) ==
    LET w == CHOOSE w \in SectionWords : HasWordAt(s, p, w)
    IN  RunEnd(s, p + Len(w), SpaceChars)
SectionEnd(s, p) ==
    IF ~\E w \in SectionWords : HasWordAt(s, p, w) THEN -1
    ELSE LET w  == CHOOSE w \in SectionWords : HasWordAt(s, p, w)
             a  == p + Len(w)
             b  == RunEnd(s, a, SpaceChars)
             c  == RunEnd(s, b, Digits)
         IN  IF b = a \/ c = b THEN -1
             ELSE RunEnd(s, RunEnd(s, c, DotOrDigitChars), WordChars)

\* ([a-z])\)\s+  with re.IGNORECASE
SubsectionEnd(s, p) ==
    IF /\ p + 2 < Len(s)
       /\ IsLetter(At(s, p))
       /\ At(s, p + 1) = ")"
       /\ IsSpace(At(s, p + 2))
    THEN RunEnd(s, p + 2, SpaceChars)
    ELSE -1

\* (\d+)\.\s+
NumberedEnd(s, p) ==
    IF ~IsDigit(At(s, p)) THEN -1
    ELSE LET d == RunEnd(s, p, Digits)
         IN  IF /\ d + 1 < Len(s)
                /\ At(s, d) = "."
                /\ IsSpace(At(s, d + 1))
             THEN RunEnd(s, d + 1, SpaceChars)
             ELSE -1

\* \n\s*\n : the greedy \s* backs off to the last newline of the run
ParagraphBreakEnd(s, p) ==
    IF At(s, p) # "\n" THEN -1
    ELSE LET r  == RunEnd(s, p + 1, SpaceChars)
             nl == {q \in (p + 1)..(r - 1) : At(s, q) = "\n"}
         IN  IF nl = {} THEN -1 ELSE Max(nl) + 1

\* re.finditer: leftmost matches, each search resuming at the previous end.
\* ends[p + 1] is the end of the match starting at p, or -1.
RECURSIVE FindIter(_, _)
FindIter(ends, from) ==
    LET cand == {p \in from..(Len(ends) - 1) : ends[p + 1] >= 0}
    IN  IF cand = {} THEN <<>>
        ELSE LET p == Min(cand)
             IN  <<[start |-> p, end |-> ends[p + 1]]>> \o FindIter(ends, ends[p + 1])

SectionMatches(s)    == FindIter([i \in 1..Len(s) |-> SectionEnd(s, i - 1)], 0)
SubsectionMatches(s) == FindIter([i \in 1..Len(s) |-> SubsectionEnd(s, i - 1)], 0)
NumberedMatches(s)   == FindIter([i \in 1..Len(s) |-> NumberedEnd(s, i - 1)], 0)
ParagraphBreaks(s)   == FindIter([i \in 1..Len(s) |-> ParagraphBreakEnd(s, i - 1)], 0)

\* text[start_i : start_{i+1}] of a list of matches, the last one to the end
SpanEnd(s, ms, i) == IF i = Len(ms) THEN Len(s) ELSE ms[i + 1].start
SpanText(s, ms, i) == Strip(Slice(s, ms[i].start, SpanEnd(s, ms, i)))

\* re.split(r"\n\s*\n", text)
RegexSplit(s) ==
    LET ms == ParagraphBreaks(s)
    IN  [i \in 1..(Len(ms) + 1) |->
            Slice(s, IF i = 1 THEN 0 ELSE ms[i - 1].end,
                     IF i = Len(ms) + 1 THEN Len(s) ELSE ms[i].start)]

(***************************************************************************)
(* Chunks and their metadata.  A metadata dict is a record with every key  *)
(* the chunker can set; a key the dict does not hold has the value of      *)
(* NoMetadata ("" , <<>> or 0).                                            *)
(***************************************************************************)
NoMetadata == [type |-> "", chunk_type |-> "", section_id |-> <<>>,
               section_num |-> <<>>, subsection_id |-> <<>>, item_num |-> <<>>,
               sentence_count |-> 0, chunk_start |-> 0, chunk_end |-> 0,
               length |-> 0]

Unit(t, md) == [text |-> t, metadata |-> md]

MinTextLen == 100

\* if len(text) < 100
IsShortText(t) == Len(t) < MinTextLen

ShortFragmentStripped(t) ==
    Unit(Strip(t), [NoMetadata EXCEPT !.type = "short_fragment", !.length = Len(Strip(t))])
ShortFragment(t) ==
    Unit(t, [NoMetadata EXCEPT !.type = "short_fragment", !.length = Len(t)])

\* if len(section_text) <= chunk_size / if len(subsec_text) <= chunk_size
FitsInverted(t, size) == Len(t) >= size
Fits(t, size) == Len(t) <= size

LegalSectionsNextNum(t, ms) ==
    [i \in 1..Len(ms) |->
        Unit(SpanText(t, ms, i),
             [NoMetadata EXCEPT
                 !.type = "legal_section",
                 !.section_id = Strip(Slice(t, ms[i].start, ms[i].end)),
                 !.section_num = Strip(Slice(t, SectionNumStart(t, ms[Len(ms)].start),
                                             ms[Len(ms)].end)),
                 !.length = Len(SpanText(t, ms, i))])]
LegalSections(t, ms) ==
    [i \in 1..Len(ms) |->
        Unit(SpanText(t, ms, i),
             [NoMetadata EXCEPT
                 !.type = "legal_section",
                 !.section_id = Strip(Slice(t, ms[i].start, ms[i].end)),
                 !.section_num = Strip(Slice(t, SectionNumStart(t, ms[i].start), ms[i].end)),
                 !.length = Len(SpanText(t, ms, i))])]

RECURSIVE Paragraphs(_)
Paragraphs(ps) ==
    IF ps = <<>> THEN <<>>
    ELSE IF Len(Strip(Head(ps))) > 0
         THEN <<Unit(Strip(Head(ps)),
                     [NoMetadata EXCEPT !.type = "paragraph",
                                        !.length = Len(Strip(Head(ps)))])>>
              \o Paragraphs(Tail(ps))
         ELSE Paragraphs(Tail(ps))

FullText(t) == <<Unit(t, [NoMetadata EXCEPT !.type = "full_text", !.length = Len(t)])>>

\* step 1 of _chunk_text: the logical units of one text
SplitSections(t) ==
    LET ms == SectionMatches(t)
    IN  IF Len(ms) > 1 THEN LegalSections(t, ms)
        ELSE LET ps == RegexSplit(t)
             IN  IF Len(ps) > 1 THEN Paragraphs(ps) ELSE FullText(t)

Subsections(t, md, ms) ==
    [i \in 1..Len(ms) |->
        Unit(SpanText(t, ms, i),
             [md EXCEPT !.type = "subsection",
                        !.subsection_id = Strip(Slice(t, ms[i].start, ms[i].end)),
                        !.length = Len(SpanText(t, ms, i))])]

NumberedItems(t, md, ms) ==
    [i \in 1..Len(ms) |->
        Unit(SpanText(t, ms, i),
             [md EXCEPT !.type = "numbered_item",
                        !.item_num = Strip(Slice(t, ms[i].start,
                                                 RunEnd(t, ms[i].start, Digits))),
                        !.length = Len(SpanText(t, ms, i))])]

\* nltk's sent_tokenize: a sentence ends at '.', '!' or '?' followed by
\* white space; the white space between two sentences belongs to neither.
SentenceEnds(t) ==
    {p \in 0..(Len(t) - 2) : At(t, p) \in {".", "!", "?"} /\ IsSpace(At(t, p + 1))}
RECURSIVE SentencesFrom(_, _)
SentencesFrom(t, from) ==
    LET ends == {p \in SentenceEnds(t) : p >= from}
    IN  IF ends = {}
        THEN (IF Strip(Slice(t, from, Len(t))) = <<>> THEN <<>>
              ELSE <<Strip(Slice(t, from, Len(t)))>>)
        ELSE LET p == Min(ends)
                 sent == Strip(Slice(t, from, p + 1))
             IN  (IF sent = <<>> THEN <<>> ELSE <<sent>>) \o SentencesFrom(t, p + 1)
SentTokenize(t) == SentencesFrom(t, 0)

\* " ".join(group)
RECURSIVE JoinSpace(_)
JoinSpace(g) ==
    IF g = <<>> THEN <<>>
    ELSE IF Len(g) = 1 THEN g[1]
    ELSE g[1] \o <<" ">> \o JoinSpace(Tail(g))

SentenceGroup(md, g) ==
    Unit(JoinSpace(g), [md EXCEPT !.type = "sentence_group",
                                  !.sentence_count = Len(g),
                                  !.length = Len(JoinSpace(g))])

\* whether the loop closes the current group before taking sentence sn
GroupIsFull(current_length, sentence_len, current_group, size) ==
    current_length + sentence_len > size /\ current_group # <<>>

\* the loop over sentences and the flush after it
RECURSIVE GroupSentences(_, _, _, _, _)
GroupSentences(sents, md, size, current_group, current_length) ==
    IF sents = <<>>
    THEN (IF current_group # <<>> THEN <<SentenceGroup(md, current_group)>> ELSE <<>>)
    ELSE LET sentence == Strip(Head(sents))
         IN  IF GroupIsFull(current_length, Len(sentence), current_group, size)
             THEN <<SentenceGroup(md, current_group)>>
                  \o GroupSentences(Tail(sents), md, size, <<sentence>>, Len(sentence))
             ELSE GroupSentences(Tail(sents), md, size,
                                 Append(current_group, sentence),
                                 current_length + Len(sentence))

\* step 2 of _chunk_text for an oversized section: levels 1, 2 and 3
SplitSubsections(sec, size) ==
    LET subs == SubsectionMatches(sec.text)
        nums == NumberedMatches(sec.text)
    IN  IF Len(subs) > 1 THEN Subsections(sec.text, sec.metadata, subs)
        ELSE IF Len(nums) > 1 THEN NumberedItems(sec.text, sec.metadata, nums)
        ELSE GroupSentences(SentTokenize(sec.text), sec.metadata, size, <<>>, 0)

(***************************************************************************)
(* The fixed-width fallback: one iteration of the while loop               *)
(***************************************************************************)
SentenceTerminals == {".", "!", "?", "\n"}
MaxLookBack == 100

MinOf(a, b) == IF a < b THEN a ELSE b

\* the cut that replaces the raw window end
BreakPoint(end, i) == end - i + 1

\* end of the window that starts at st
WindowEnd(t, st, size, overlap) ==
    LET end == st + size
    IN  IF end < Len(t)
        THEN LET hit == {i \in 0..(MinOf(MaxLookBack, overlap) - 1) :
                            end - i > 0 /\ At(t, end - i) \in SentenceTerminals}
             IN  IF hit = {} THEN end ELSE BreakPoint(end, Min(hit))
        ELSE end

CharacterChunk(sub, st, end) ==
    Unit(Slice(sub.text, st, end),
         [sub.metadata EXCEPT !.chunk_type = "character_chunk",
                              !.chunk_start = st,
                              !.chunk_end = end,
                              !.length = Len(Slice(sub.text, st, end))])

NextStartShort(end, overlap) == end - overlap - 1
NextStart(end, overlap) == end - overlap

(***************************************************************************)
(* Inputs.  A text is the concatenation of at most MaxPieces pieces, each  *)
(* a marker the chunker looks for followed by filler; the 5-article sample *)
(* of test_chunking.py is an input too.                                    *)
(***************************************************************************)
MaxPieces == 3
MaxIters == 40

Piece(k) ==
    CASE k = 1 -> <<"A","r","t","i","c","l","e"," ","1",":"," ">> \o Rep("x", 30) \o <<".", " ">>
      [] k = 2 -> <<SectionSign, " ", "2", ".", "1", "a", " ">> \o Rep("y", 40) \o <<"\n">>
      [] k = 3 -> <<"a", ")", " ">> \o Rep("x", 35) \o <<";", " ">>
      [] k = 4 -> <<"1", ".", " ">> \o Rep("y", 33) \o <<"!", " ">>
      [] k = 5 -> Rep("x", 44) \o <<"?", " ">>
      [] k = 6 -> Rep("y", 38) \o <<"\n", " ", "\n">>
      [] k = 7 -> Rep("x", 120)
PieceIds == 1..7

RECURSIVE Concat(_)
Concat(ss) == IF ss = <<>> THEN <<>> ELSE Head(ss) \o Concat(Tail(ss))

Shapes == UNION {[1..n -> PieceIds] : n \in 0..MaxPieces}
TextOf(shape) == Concat([i \in 1..Len(shape) |-> Piece(shape[i])])

SampleText == <<
    "\n","A","r","t","i","c","l","e"," ","1",":"," ","G","e","n","e",
    "r","a","l"," ","P","r","o","v","i","s","i","o","n","s","\n","\n",
    "1",".","1"," ","T","h","i","s"," ","r","e","g","u","l","a","t",
    "i","o","n"," ","e","s","t","a","b","l","i","s","h","e","s"," ",
    "t","h","e"," ","f","r","a","m","e","w","o","r","k"," ","f","o",
    "r"," ","s","a","n","c","t","i","o","n","s"," ","i","m","p","l",
    "e","m","e","n","t","a","t","i","o","n",".","\n","1",".","2"," ",
    "I","t"," ","a","p","p","l","i","e","s"," ","t","o"," ","a","l",
    "l"," ","n","a","t","u","r","a","l"," ","a","n","d"," ","l","e",
    "g","a","l"," ","p","e","r","s","o","n","s"," ","u","n","d","e",
    "r"," ","t","h","e"," ","j","u","r","i","s","d","i","c","t","i",
    "o","n"," ","o","f"," ","M","e","m","b","e","r"," ","S","t","a",
    "t","e","s",".","\n","\n","A","r","t","i","c","l","e"," ","2",":",
    " ","D","e","f","i","n","i","t","i","o","n","s","\n","\n","F","o",
    "r"," ","t","h","e"," ","p","u","r","p","o","s","e","s"," ","o",
    "f"," ","t","h","i","s"," ","R","e","g","u","l","a","t","i","o",
    "n",","," ","t","h","e"," ","f","o","l","l","o","w","i","n","g",
    " ","d","e","f","i","n","i","t","i","o","n","s"," ","a","p","p",
    "l","y",":","\n","(","a",")"," ","'","f","u","n","d","s","'"," ",
    "m","e","a","n","s"," ","f","i","n","a","n","c","i","a","l"," ",
    "a","s","s","e","t","s"," ","a","n","d"," ","b","e","n","e","f",
    "i","t","s"," ","o","f"," ","a","n","y"," ","k","i","n","d",";",
    "\n","(","b",")"," ","'","e","c","o","n","o","m","i","c"," ","r",
    "e","s","o","u","r","c","e","s","'"," ","m","e","a","n","s"," ",
    "a","s","s","e","t","s"," ","o","f"," ","a","n","y"," ","k","i",
    "n","d",","," ","w","h","e","t","h","e","r"," ","t","a","n","g",
    "i","b","l","e"," ","o","r"," ","i","n","t","a","n","g","i","b",
    "l","e",","," ","m","o","v","a","b","l","e"," ","o","r"," ","i",
    "m","m","o","v","a","b","l","e",".","\n","\n","A","r","t","i","c",
    "l","e"," ","3",":"," ","A","s","s","e","t"," ","F","r","e","e",
    "z","i","n","g","\n","\n","3",".","1"," ","A","l","l"," ","f","u",
    "n","d","s"," ","a","n","d"," ","e","c","o","n","o","m","i","c",
    " ","r","e","s","o","u","r","c","e","s"," ","b","e","l","o","n",
    "g","i","n","g"," ","t","o",","," ","o","w","n","e","d",","," ",
    "h","e","l","d"," ","o","r"," ","c","o","n","t","r","o","l","l",
    "e","d"," ","b","y"," ","n","a","t","u","r","a","l"," ","o","r",
    " ","l","e","g","a","l"," ","p","e","r","s","o","n","s",","," ",
    "e","n","t","i","t","i","e","s"," ","o","r"," ","b","o","d","i",
    "e","s"," ","l","i","s","t","e","d"," ","i","n"," ","A","n","n",
    "e","x"," ","I"," ","s","h","a","l","l"," ","b","e"," ","f","r",
    "o","z","e","n",".","\n","3",".","2"," ","N","o"," ","f","u","n",
    "d","s"," ","o","r"," ","e","c","o","n","o","m","i","c"," ","r",
    "e","s","o","u","r","c","e","s"," ","s","h","a","l","l"," ","b",
    "e"," ","m","a","d","e"," ","a","v","a","i","l","a","b","l","e",
    ","," ","d","i","r","e","c","t","l","y"," ","o","r"," ","i","n",
    "d","i","r","e","c","t","l","y",","," ","t","o"," ","o","r"," ",
    "f","o","r"," ","t","h","e"," ","b","e","n","e","f","i","t"," ",
    "o","f"," ","n","a","t","u","r","a","l"," ","o","r"," ","l","e",
    "g","a","l"," ","p","e","r","s","o","n","s",","," ","e","n","t",
    "i","t","i","e","s"," ","o","r"," ","b","o","d","i","e","s"," ",
    "l","i","s","t","e","d"," ","i","n"," ","A","n","n","e","x"," ",
    "I",".","\n","\n","A","r","t","i","c","l","e"," ","4",":"," ","P",
    "e","n","a","l","t","i","e","s","\n","M","e","m","b","e","r"," ",
    "S","t","a","t","e","s"," ","s","h","a","l","l"," ","l","a","y",
    " ","d","o","w","n"," ","t","h","e"," ","r","u","l","e","s"," ",
    "o","n"," ","p","e","n","a","l","t","i","e","s"," ","a","p","p",
    "l","i","c","a","b","l","e"," ","t","o"," ","i","n","f","r","i",
    "n","g","e","m","e","n","t","s"," ","o","f"," ","t","h","e"," ",
    "p","r","o","v","i","s","i","o","n","s"," ","o","f"," ","t","h",
    "i","s"," ","R","e","g","u","l","a","t","i","o","n"," ","a","n",
    "d"," ","s","h","a","l","l"," ","t","a","k","e"," ","a","l","l",
    " ","m","e","a","s","u","r","e","s"," ","n","e","c","e","s","s",
    "a","r","y"," ","t","o"," ","e","n","s","u","r","e"," ","t","h",
    "a","t"," ","t","h","e","y"," ","a","r","e"," ","i","m","p","l",
    "e","m","e","n","t","e","d","."," ","T","h","e"," ","p","e","n",
    "a","l","t","i","e","s"," ","p","r","o","v","i","d","e","d"," ",
    "f","o","r"," ","m","u","s","t"," ","b","e"," ","e","f","f","e",
    "c","t","i","v","e",","," ","p","r","o","p","o","r","t","i","o",
    "n","a","t","e"," ","a","n","d"," ","d","i","s","s","u","a","s",
    "i","v","e",".","\n","\n","A","r","t","i","c","l","e"," ","5",":",
    " ","E","n","t","r","y"," ","i","n","t","o"," ","F","o","r","c",
    "e","\n","T","h","i","s"," ","R","e","g","u","l","a","t","i","o",
    "n"," ","s","h","a","l","l"," ","e","n","t","e","r"," ","i","n",
    "t","o"," ","f","o","r","c","e"," ","o","n"," ","t","h","e"," ",
    "d","a","y"," ","f","o","l","l","o","w","i","n","g"," ","t","h",
    "a","t"," ","o","f"," ","i","t","s"," ","p","u","b","l","i","c",
    "a","t","i","o","n"," ","i","n"," ","t","h","e"," ","O","f","f",
    "i","c","i","a","l"," ","J","o","u","r","n","a","l"," ","o","f",
    " ","t","h","e"," ","E","u","r","o","p","e","a","n"," ","U","n",
    "i","o","n",".","\n","T","h","i","s"," ","R","e","g","u","l","a",
    "t","i","o","n"," ","s","h","a","l","l"," ","b","e"," ","b","i",
    "n","d","i","n","g"," ","i","n"," ","i","t","s"," ","e","n","t",
    "i","r","e","t","y"," ","a","n","d"," ","d","i","r","e","c","t",
    "l","y"," ","a","p","p","l","i","c","a","b","l","e"," ","i","n",
    " ","a","l","l"," ","M","e","m","b","e","r"," ","S","t","a","t",
    "e","s",".","\n","\n","D","o","n","e"," ","a","t"," ","B","r","u",
    "s","s","e","l","s",","," ","3","0"," ","J","u","l","y"," ","2",
    "0","2","3",".","\n" >>

\* (chunk_size, chunk_overlap), chunk_size > chunk_overlap >= 0
Params == { <<1000, 200>>, <<50, 10>>, <<45, 0>>, <<10, 3>>, <<10, 8>> }

InputTexts ==
    {<<TextOf(sh)>> : sh \in Shapes}
    \cup {<<<<>>, TextOf(sh)>> : sh \in {s \in Shapes : Len(s) = 1}}

(***************************************************************************)
(* _chunk_text as a state machine                                          *)
(***************************************************************************)
InitChunk ==
    /\ \/ /\ texts \in InputTexts
          /\ \E p \in Params : chunk_size = p[1] /\ chunk_overlap = p[2]
       \/ /\ texts = <<SampleText>>
          /\ chunk_size = 1000
          /\ chunk_overlap = 200
    /\ cpc = "text"
    /\ text_idx = 0
    /\ sections = <<>>
    /\ subsections = <<>>
    /\ start = 0
    /\ iters = 0
    /\ chunks_with_metadata = <<>>
    /\ provenance = <<>>
    /\ units = 0
    /\ final_chunks = <<>>
    /\ chunk_calls = 1
    /\ previous_chunks = NoPrevious
    /\ store = <<>>
    /\ QueryIdle
    /\ IndexIdle

NoUnit == [unit |-> 0, lo |-> 0, hi |-> 0]

\* for text_idx, text in enumerate(texts): a text under 100 characters
ChunkShortText ==
    /\ cpc = "text"
    /\ text_idx < Len(texts)
    /\ IsShortText(At(texts, text_idx))
    /\ chunks_with_metadata' = Append(chunks_with_metadata, ShortFragment(At(texts, text_idx)))
    /\ provenance' = Append(provenance, NoUnit)
    /\ text_idx' = text_idx + 1
    /\ UNCHANGED notChunkVars
    /\ UNCHANGED <<chunk_calls, previous_chunks>>
    /\ UNCHANGED <<texts, chunk_size, chunk_overlap, cpc, sections, subsections,
                   start, iters, units, final_chunks>>

\* step 1 for a text of 100 characters or more
ChunkSplitText ==
    /\ cpc = "text"
    /\ text_idx < Len(texts)
    /\ ~IsShortText(At(texts, text_idx))
    /\ sections' = SplitSections(At(texts, text_idx))
    /\ cpc' = "section"
    /\ UNCHANGED notChunkVars
    /\ UNCHANGED <<chunk_calls, previous_chunks>>
    /\ UNCHANGED <<texts, chunk_size, chunk_overlap, text_idx, subsections, start,
                   iters, chunks_with_metadata, provenance, units, final_chunks>>

\* for section in sections: a section that fits is kept as it is
ChunkKeepSection ==
    /\ cpc = "section"
    /\ sections # <<>>
    /\ Fits(Head(sections).text, chunk_size)
    /\ chunks_with_metadata' = Append(chunks_with_metadata, Head(sections))
    /\ provenance' = Append(provenance, NoUnit)
    /\ sections' = Tail(sections)
    /\ UNCHANGED notChunkVars
    /\ UNCHANGED <<chunk_calls, previous_chunks>>
    /\ UNCHANGED <<texts, chunk_size, chunk_overlap, cpc, text_idx, subsections,
                   start, iters, units, final_chunks>>

\* a larger section is split into subsections
ChunkSplitSection ==
    /\ cpc = "section"
    /\ sections # <<>>
    /\ ~Fits(Head(sections).text, chunk_size)
    /\ subsections' = SplitSubsections(Head(sections), chunk_size)
    /\ sections' = Tail(sections)
    /\ cpc' = "subsection"
    /\ UNCHANGED notChunkVars
    /\ UNCHANGED <<chunk_calls, previous_chunks>>
    /\ UNCHANGED <<texts, chunk_size, chunk_overlap, text_idx, start, iters,
                   chunks_with_metadata, provenance, units, final_chunks>>

\* the sections of this text are done: next text
ChunkNextText ==
    /\ cpc = "section"
    /\ sections = <<>>
    /\ text_idx' = text_idx + 1
    /\ cpc' = "text"
    /\ UNCHANGED notChunkVars
    /\ UNCHANGED <<chunk_calls, previous_chunks>>
    /\ UNCHANGED <<texts, chunk_size, chunk_overlap, sections, subsections, start,
                   iters, chunks_with_metadata, provenance, units, final_chunks>>

\* for subsection in subsections: a subsection that fits is kept as it is
ChunkKeepSubsection ==
    /\ cpc = "subsection"
    /\ subsections # <<>>
    /\ Fits(Head(subsections).text, chunk_size)
    /\ chunks_with_metadata' = Append(chunks_with_metadata, Head(subsections))
    /\ provenance' = Append(provenance, NoUnit)
    /\ subsections' = Tail(subsections)
    /\ UNCHANGED notChunkVars
    /\ UNCHANGED <<chunk_calls, previous_chunks>>
    /\ UNCHANGED <<texts, chunk_size, chunk_overlap, cpc, text_idx, sections,
                   start, iters, units, final_chunks>>

\* a larger subsection enters the fixed-width fallback: start = 0
ChunkStartFallback ==
    /\ cpc = "subsection"
    /\ subsections # <<>>
    /\ ~Fits(Head(subsections).text, chunk_size)
    /\ start' = 0
    /\ units' = units + 1
    /\ cpc' = "fallback"
    /\ UNCHANGED notChunkVars
    /\ UNCHANGED <<chunk_calls, previous_chunks>>
    /\ UNCHANGED <<texts, chunk_size, chunk_overlap, text_idx, sections, subsections,
                   iters, chunks_with_metadata, provenance, final_chunks>>

\* the subsections of this section are done: next section
ChunkNextSection ==
    /\ cpc = "subsection"
    /\ subsections = <<>>
    /\ cpc' = "section"
    /\ UNCHANGED notChunkVars
    /\ UNCHANGED <<chunk_calls, previous_chunks>>
    /\ UNCHANGED <<texts, chunk_size, chunk_overlap, text_idx, sections, subsections,
                   start, iters, chunks_with_metadata, provenance, units, final_chunks>>

\* one iteration of: while start < len(subsec_text)
ChunkFallbackStep ==
    /\ cpc = "fallback"
    /\ iters < MaxIters
    /\ LET sub == Head(subsections)
           end == WindowEnd(sub.text, start, chunk_size, chunk_overlap)
           n   == Len(sub.text)
       IN  /\ chunks_with_metadata' =
                 Append(chunks_with_metadata, CharacterChunk(sub, start, end))
           /\ provenance' = Append(provenance,
                 [unit |-> units, lo |-> SliceIndex(n, start), hi |-> SliceIndex(n, end)])
           /\ start' = NextStart(end, chunk_overlap)
           /\ iters' = iters + 1
           /\ IF NextStart(end, chunk_overlap) >= n
              THEN /\ subsections' = Tail(subsections)
                   /\ cpc' = "subsection"
              ELSE UNCHANGED <<subsections, cpc>>
    /\ UNCHANGED notChunkVars
    /\ UNCHANGED <<chunk_calls, previous_chunks>>
    /\ UNCHANGED <<texts, chunk_size, chunk_overlap, text_idx, sections, units,
                   final_chunks>>

\* final_chunks = [item["text"] for item in chunks_with_metadata]
ChunkReturn ==
    /\ cpc = "text"
    /\ text_idx >= Len(texts)
    /\ final_chunks' = [i \in 1..Len(chunks_with_metadata) |-> chunks_with_metadata[i].text]
    /\ cpc' = "done"
    /\ UNCHANGED notChunkVars
    /\ UNCHANGED <<chunk_calls, previous_chunks>>
    /\ UNCHANGED <<texts, chunk_size, chunk_overlap, text_idx, sections, subsections,
                   start, iters, chunks_with_metadata, provenance, units>>

NextChunk ==
    \/ ChunkShortText
    \/ ChunkSplitText
    \/ ChunkKeepSection
    \/ ChunkSplitSection
    \/ ChunkNextText
    \/ ChunkKeepSubsection
    \/ ChunkStartFallback
    \/ ChunkNextSection
    \/ ChunkFallbackStep
    \/ ChunkReturn

SpecChunk == InitChunk /\ [][NextChunk]_vars

(***************************************************************************)
(* Two _chunk_text calls with the same arguments, one after the other      *)
(***************************************************************************)
MaxRepeatPieces == 2

RepeatTexts ==
    {<<TextOf(sh)>> : sh \in {s \in Shapes : Len(s) <= MaxRepeatPieces}}
    \cup {<<<<>>, TextOf(sh)>> : sh \in {s \in Shapes : Len(s) = 1}}
    \cup {<<SampleText>>}

InitChunkTwice ==
    /\ InitChunk
    /\ texts \in RepeatTexts

LeftoverChunks(built) == built

\* chunks_with_metadata = []: the list of a call starts empty, whatever
\* the call before built
FreshChunks(built) == <<>>

\* the call has returned and _chunk_text is called again with the same
\* texts, chunk_size and chunk_overlap: every local starts afresh
ChunkCallAgain ==
    /\ cpc = "done"
    /\ chunk_calls = 1
    /\ chunk_calls' = 2
    /\ previous_chunks' = [chunks_with_metadata |-> chunks_with_metadata,
                           final_chunks |-> final_chunks]
    /\ cpc' = "text"
    /\ text_idx' = 0
    /\ sections' = <<>>
    /\ subsections' = <<>>
    /\ start' = 0
    /\ iters' = 0
    /\ chunks_with_metadata' = FreshChunks(chunks_with_metadata)
    /\ provenance' = <<>>
    /\ units' = 0
    /\ final_chunks' = <<>>
    /\ UNCHANGED <<texts, chunk_size, chunk_overlap>>
    /\ UNCHANGED notChunkVars

NextChunkTwice ==
    \/ ChunkShortText
    \/ ChunkSplitText
    \/ ChunkKeepSection
    \/ ChunkSplitSection
    \/ ChunkNextText
    \/ ChunkKeepSubsection
    \/ ChunkStartFallback
    \/ ChunkNextSection
    \/ ChunkFallbackStep
    \/ ChunkReturn
    \/ ChunkCallAgain

SpecChunkTwice == InitChunkTwice /\ [][NextChunkTwice]_vars

(***************************************************************************)
(* _chunk_text on texts made of plain sentences, with chunk sizes around   *)
(* the length of one, two and three sentences                              *)
(***************************************************************************)
SentencePieceIds == {4, 5}
SentenceShapes == {sh \in Shapes : Range(sh) \subseteq SentencePieceIds}
SentenceParams == { <<1000, 200>>, <<45, 0>>, <<46, 5>>, <<90, 0>>, <<91, 10>>,
                    <<92, 0>>, <<135, 20>> }

InitChunkSentences ==
    /\ texts \in {<<TextOf(sh)>> : sh \in SentenceShapes}
    /\ \E p \in SentenceParams : chunk_size = p[1] /\ chunk_overlap = p[2]
    /\ cpc = "text"
    /\ text_idx = 0
    /\ sections = <<>>
    /\ subsections = <<>>
    /\ start = 0
    /\ iters = 0
    /\ chunks_with_metadata = <<>>
    /\ provenance = <<>>
    /\ units = 0
    /\ final_chunks = <<>>
    /\ chunk_calls = 1
    /\ previous_chunks = NoPrevious
    /\ store = <<>>
    /\ QueryIdle
    /\ IndexIdle

SpecChunkSentences == InitChunkSentences /\ [][NextChunk]_vars

(***************************************************************************)
(* Properties of _chunk_text                                               *)
(***************************************************************************)
Chunks == chunks_with_metadata
IsCharacterChunk(c) == c.metadata.chunk_type = "character_chunk"
ChunkIds == 1..Len(Chunks)

\* C1: every chunk that the fixed-width fallback did not cut has at most
\* chunk_size characters, unless it is a short_fragment (a text of fewer
\* than 100 characters passed through unsplit).
C1_SizeBound ==
    \A i \in ChunkIds :
        ~IsCharacterChunk(Chunks[i]) =>
            \/ Len(Chunks[i].text) <= chunk_size
            \/ /\ Chunks[i].metadata.type = "short_fragment"
               /\ Len(Chunks[i].text) < 100
C1_Witness ==
    /\ cpc = "done"
    /\ \E i \in ChunkIds : /\ ~IsCharacterChunk(Chunks[i])
                           /\ Chunks[i].metadata.type \in {"subsection", "sentence_group"}
    /\ \E i \in ChunkIds : /\ Chunks[i].metadata.type = "legal_section"
                           /\ ~IsCharacterChunk(Chunks[i])
    /\ \E i \in ChunkIds : IsCharacterChunk(Chunks[i])

\* C2: every chunk cut by the fixed-width fallback has at most chunk_size
\* characters.
C2_CharacterChunkBound ==
    \A i \in ChunkIds :
        IsCharacterChunk(Chunks[i]) => Len(Chunks[i].text) <= chunk_size

\* C3: two consecutive chunks cut by the fixed-width fallback from the same
\* unit share at most chunk_overlap characters of that unit.
Shared(a, b) ==
    LET lo == IF a.lo > b.lo THEN a.lo ELSE b.lo
        hi == IF a.hi < b.hi THEN a.hi ELSE b.hi
    IN  IF a.hi <= a.lo \/ b.hi <= b.lo \/ hi <= lo THEN 0 ELSE hi - lo
SameUnit(i) ==
    /\ i + 1 <= Len(provenance)
    /\ provenance[i].unit # 0
    /\ provenance[i].unit = provenance[i + 1].unit
C3_OverlapBound ==
    \A i \in ChunkIds :
        SameUnit(i) => Shared(provenance[i], provenance[i + 1]) <= chunk_overlap
C3_Witness ==
    /\ chunk_overlap > 0
    /\ \E i \in ChunkIds :
          /\ SameUnit(i)
          /\ Shared(provenance[i], provenance[i + 1]) = chunk_overlap
          /\ Chunks[i].metadata.chunk_end # Chunks[i].metadata.chunk_start + chunk_size

\* C4: every chunk has a non-empty text.
C4_NonEmptyText ==
    \A i \in ChunkIds : Chunks[i].text # <<>>

\* C5: a text of fewer than 100 characters chunked alone yields exactly one
\* chunk, a short_fragment whose text is the input.
C5_ShortFragmentPassthrough ==
    (cpc = "done" /\ Len(texts) = 1 /\ Len(texts[1]) < 100) =>
        /\ Len(Chunks) = 1
        /\ Chunks[1].text = texts[1]
        /\ Chunks[1].metadata.type = "short_fragment"
        /\ ~IsCharacterChunk(Chunks[1])
        /\ final_chunks = <<texts[1]>>
C5_Witness ==
    /\ cpc = "done"
    /\ Len(texts) = 1
    /\ Len(texts[1]) < 100
    /\ Len(texts[1]) > chunk_size
    /\ Len(SectionMatches(texts[1])) > 1
    /\ texts[1] # Strip(texts[1])

\* C6: a text of 100 characters or more with k >= 2 section markers, each
\* section no longer than chunk_size, gives exactly k chunks in document
\* order, each a legal_section with the number of its marker; the 5-article
\* sample with chunk_size 1000 gives section_num "1".."5".
MarkerNum(t, m) == Slice(t, RunEnd(t, RunEnd(t, m.start, LetterChars) +
                                      (IF At(t, m.start) = SectionSign THEN 1 ELSE 0),
                                   SpaceChars), m.end)
C6_SectionsInOrder ==
    (cpc = "done" /\ Len(texts) = 1 /\ Len(texts[1]) >= 100) =>
        LET t  == texts[1]
            ms == SectionMatches(t)
        IN  /\ (Len(ms) >= 2 /\ \A i \in 1..Len(ms) : Len(SpanText(t, ms, i)) <= chunk_size)
                 => /\ Len(Chunks) = Len(ms)
                    /\ Len(final_chunks) = Len(ms)
                    /\ \A i \in 1..Len(ms) :
                          /\ Chunks[i].metadata.type = "legal_section"
                          /\ ~IsCharacterChunk(Chunks[i])
                          /\ Chunks[i].metadata.section_num = MarkerNum(t, ms[i])
                          /\ Chunks[i].text = SpanText(t, ms, i)
                          /\ final_chunks[i] = Chunks[i].text
            /\ (t = SampleText /\ chunk_size = 1000 /\ chunk_overlap = 200)
                 => /\ Len(Chunks) = 5
                    /\ [i \in 1..5 |-> Chunks[i].metadata.section_num]
                         = << <<"1">>, <<"2">>, <<"3">>, <<"4">>, <<"5">> >>
                    /\ \A i \in 1..5 : Chunks[i].metadata.type = "legal_section"
C6_Witness ==
    /\ cpc = "done"
    /\ texts = <<SampleText>>
    /\ Len(final_chunks) = 5

(***************************************************************************)
(* query_dataset.  The collection is the list of its entries in order of   *)
(* distance to the query text, so that collection.query returns the first  *)
(* n_results entries that pass the document filter.  A distance is         *)
(* base * 1.1^pow: the code multiplies a distance by 1.1.                  *)
(***************************************************************************)
Dist(b, k) == [base |-> b, pow |-> k]

RECURSIVE Pow(_, _)
Pow(b, k) == IF k = 0 THEN 1 ELSE b * Pow(b, k - 1)
\* a <= b for distances with base >= 0
DistLeq(a, b) ==
    IF a.base <= b.base /\ a.pow <= b.pow THEN TRUE
    ELSE IF a.base >= b.base /\ a.pow >= b.pow
         THEN (a.base = b.base /\ a.pow = b.pow) \/ a.base = 0
         ELSE a.base * Pow(11, a.pow) * Pow(10, b.pow)
                <= b.base * Pow(11, b.pow) * Pow(10, a.pow)
\* max(distances)
MaxDist(ds) == ds[CHOOSE i \in 1..Len(ds) : \A j \in 1..Len(ds) : DistLeq(ds[j], ds[i])]
\* max_dist * 1.1
TimesOnePointOne(d) == Dist(d.base, d.pow + 1)

\* where_document = {"$contains": kw}
Contains(doc, kw) ==
    \E p \in 0..(Len(doc) - Len(kw)) : \A k \in 1..Len(kw) : At(doc, p + k - 1) = kw[k]

NoFilter == <<"no filter">>
Passes(entry, filter) == filter = NoFilter \/ Contains(entry.document, filter)

RECURSIVE FirstN(_, _, _)
FirstN(entries, n, filter) ==
    IF n <= 0 \/ entries = <<>> THEN <<>>
    ELSE IF Passes(Head(entries), filter)
         THEN <<Head(entries)>> \o FirstN(Tail(entries), n - 1, filter)
         ELSE FirstN(Tail(entries), n, filter)

\* collection.query(query_texts=[query], n_results=n, where_document=filter)
StoreQuery(coll, n, filter) ==
    LET hits == FirstN(coll, n, filter)
    IN  [ids       |-> [i \in 1..Len(hits) |-> hits[i].id],
         documents |-> [i \in 1..Len(hits) |-> hits[i].document],
         metadatas |-> [i \in 1..Len(hits) |-> hits[i].metadata],
         distances |-> [i \in 1..Len(hits) |-> hits[i].distance]]

\* str.lower() and str.split()
LowerText(s) == [i \in 1..Len(s) |-> Lower(s[i])]
WordEnd(s, p) ==
    LET sp == {q \in p..(Len(s) - 1) : IsSpace(At(s, q))}
    IN  IF sp = {} THEN Len(s) ELSE Min(sp)
RECURSIVE SplitFrom(_, _)
SplitFrom(s, p) ==
    LET a == RunEnd(s, p, SpaceChars)
    IN  IF a >= Len(s) THEN <<>>
        ELSE <<Slice(s, a, WordEnd(s, a))>> \o SplitFrom(s, WordEnd(s, a))
Split(s) == SplitFrom(s, 0)

MinKeywordLen == 3
\* 1.0, a distance being counted in tenths
DefaultMaxDist == 10
MaxKeywords == 3
MaxVectorResults == 20
MaxKeywordResults == 10

RECURSIVE LongWords(_)
LongWords(ws) ==
    IF ws = <<>> THEN <<>>
    ELSE IF Len(Strip(Head(ws))) > MinKeywordLen
         THEN <<Strip(Head(ws))>> \o LongWords(Tail(ws))
         ELSE LongWords(Tail(ws))
\* [kw.strip() for kw in query.lower().split() if len(kw.strip()) > 3]
Keywords(q) == LongWords(Split(LowerText(q)))
\* keywords[:3]
TopKeywords(q) == Slice(Keywords(q), 0, MaxKeywords)

\* n_results of the vector query of hybrid search
HybridLimit(n) == MinOf(n * 2, MaxVectorResults)
\* n_results of a keyword sub-query
KeywordLimit(n) == MinOf(n, MaxKeywordResults)

RECURSIVE MergeHitsInFront(_, _, _)
MergeHitsInFront(all, kr, i) ==
    IF i > Len(kr.ids) THEN all
    ELSE IF kr.ids[i] \in Range(all.ids)
         THEN MergeHitsInFront(all, kr, i + 1)
         ELSE MergeHitsInFront(
                [ids       |-> <<kr.ids[i]>> \o all.ids,
                 documents |-> <<kr.documents[i]>> \o all.documents,
                 metadatas |-> <<kr.metadatas[i]>> \o all.metadatas,
                 distances |-> <<TimesOnePointOne(IF all.distances = <<>>
                                                  THEN Dist(DefaultMaxDist, 0)
                                                  ELSE MaxDist(all.distances))>>
                               \o all.distances],
                kr, i + 1)

RECURSIVE MergeHitsVectorCopy(_, _, _)
MergeHitsVectorCopy(all, kr, i) ==
    IF i > Len(kr.ids) THEN all
    ELSE IF kr.ids[i] \in Range(StoreQuery(store, HybridLimit(n_results), NoFilter).ids)
         THEN MergeHitsVectorCopy(all, kr, i + 1)
         ELSE MergeHitsVectorCopy(
                [ids       |-> Append(all.ids, kr.ids[i]),
                 documents |-> Append(all.documents, kr.documents[i]),
                 metadatas |-> Append(all.metadatas, kr.metadatas[i]),
                 distances |-> Append(all.distances,
                                 TimesOnePointOne(IF all.distances = <<>>
                                                  THEN Dist(DefaultMaxDist, 0)
                                                  ELSE MaxDist(all.distances)))],
                kr, i + 1)

\* the loop over one keyword's hits: each id not yet in the merged list
\* (vector_doc_ids is the list all_results["ids"][0] itself) is appended
RECURSIVE MergeHits(_, _, _)
MergeHits(all, kr, i) ==
    IF i > Len(kr.ids) THEN all
    ELSE IF kr.ids[i] \in Range(all.ids)
         THEN MergeHits(all, kr, i + 1)
         ELSE MergeHits(
                [ids       |-> Append(all.ids, kr.ids[i]),
                 documents |-> Append(all.documents, kr.documents[i]),
                 metadatas |-> Append(all.metadatas, kr.metadatas[i]),
                 distances |-> Append(all.distances,
                                 TimesOnePointOne(IF all.distances = <<>>
                                                  THEN Dist(DefaultMaxDist, 0)
                                                  ELSE MaxDist(all.distances)))],
                kr, i + 1)

VectorOnlyLimitDoubled(n) == MinOf(n * 2, MaxVectorResults)

\* n_results of the query of the standard vector search
VectorOnlyLimit(n) == n

KeywordLoopLeft(idx, kws) == Len(kws)

\* except Exception as e: print(...): the loop goes on with the keyword
\* after the one whose sub-query raised
KeywordAfterError(idx, kws) == idx + 1

\* np.argsort(-scores): positions by descending score.  StableOrder breaks
\* ties by position; the sort numpy uses is not stable, so any order of
\* equal scores can come out: ArgSorts also holds the orders that swap one
\* pair of neighbours with equal scores.
StableOrder(scores) ==
    [k \in 1..Len(scores) |->
        CHOOSE i \in 1..Len(scores) :
            Cardinality({j \in 1..Len(scores) :
                \/ scores[j] > scores[i]
                \/ scores[j] = scores[i] /\ j < i}) = k - 1]
SwapAt(perm, k) ==
    [j \in 1..Len(perm) |-> IF j = k THEN perm[k + 1]
                            ELSE IF j = k + 1 THEN perm[k] ELSE perm[j]]
ArgSorts(scores) ==
    LET st == StableOrder(scores)
    IN  {st} \cup {SwapAt(st, k) : k \in {j \in 1..(Len(scores) - 1) :
                                            scores[st[j]] = scores[st[j + 1]]}}

\* [xs[i] for i in rerank_indexes[:n_results]]
Pick(xs, idx, n) == [k \in 1..MinOf(n, Len(idx)) |-> xs[idx[k]]]
ReorderedDocumentsOnly(all, idx, n) ==
    [ids       |-> Slice(all.ids, 0, n),
     documents |-> Pick(all.documents, idx, n),
     metadatas |-> Slice(all.metadatas, 0, n),
     distances |-> Slice(all.distances, 0, n)]
\* l.594-598: the four lists are rebuilt from the same rerank_indexes[:n_results]
Reordered(all, idx, n) ==
    [ids       |-> Pick(all.ids, idx, n),
     documents |-> Pick(all.documents, idx, n),
     metadatas |-> Pick(all.metadatas, idx, n),
     distances |-> Pick(all.distances, idx, n)]

\* the except branch of the reranking block: results is what it was
AfterRerankErrorTruncated(all, n) ==
    [all EXCEPT !.documents = Slice(all.documents, 0, n)]
AfterRerankError(all, n) == all

(***************************************************************************)
(* Inputs of query_dataset: collections, query texts and n_results         *)
(***************************************************************************)
MaxCalls == 2

DocText(kind) ==
    CASE kind = 1 -> <<"t","a","x","e","s"," ","d","u","e">>
      [] kind = 2 -> <<"c","o","u","r","t"," ","f","i","n","e","s">>
      [] kind = 3 -> <<"T","a","x","e","s"," ","c","o","u","r","t">>
      [] kind = 4 -> <<"a","p","p","e","a","l">>

\* which text the i-th nearest entry holds
DocKind(layout, i) ==
    CASE layout = "plain" -> 4
      [] layout = "mixed" -> (i % 3) + 1
      [] layout = "late"  -> IF i <= 2 THEN 4 ELSE (i % 2) + 1
DocDistance(dists, i) ==
    CASE dists = "rank" -> Dist(i, 0)
      [] dists = "zero" -> Dist(0, 0)

Collection(n, layout, dists) ==
    [i \in 1..n |-> [id       |-> i,
                     document |-> DocText(DocKind(layout, i)),
                     metadata |-> <<"metadata of", i>>,
                     distance |-> DocDistance(dists, i)]]

CollectionSizes == {0, 1, 4, 25}
Collections ==
    {Collection(n, l, d) : n \in CollectionSizes,
                           l \in {"plain", "mixed", "late"}, d \in {"rank", "zero"}}

Queries ==
    { <<>>,
      <<"l","a","w">>,
      <<"t","a","x","e","s">>,
      <<"T","a","x","e","s"," "," ","C","O","U","R","T">>,
      <<"f","i","n","e","s"," ","t","a","x","e","s"," ","t","a","x","e","s"," ",
        "l","a","w"," ","c","o","u","r","t"," ","a","p","p","e","a","l">> }

NResultsChoices == {1, 2, 3, 21}

\* the scores the cross-encoder gives the candidates, by position
Scores(kind, all) ==
    [i \in 1..Len(all.ids) |->
        CASE kind = "keep"    -> 0 - i
          [] kind = "reverse" -> i
          [] kind = "by id"   -> all.ids[i] % 5
          [] kind = "equal"   -> 7]
ScoreKinds == {"keep", "reverse", "by id", "equal"}

(***************************************************************************)
(* query_dataset as a state machine; a process makes up to MaxCalls calls  *)
(***************************************************************************)
InitQuery ==
    /\ store \in Collections
    /\ QueryIdle
    /\ ChunkIdle
    /\ IndexIdle

\* a call of query_dataset; get_collection finds the collection
QueryCall ==
    /\ qpc \in {"idle", "done", "raised"}
    /\ calls < MaxCalls
    /\ query' \in Queries
    /\ n_results' \in NResultsChoices
    /\ use_hybrid_search' \in BOOLEAN
    /\ use_reranking' \in BOOLEAN
    /\ qpc' = "called"
    /\ all_results' = NoResults
    /\ keywords' = <<>>
    /\ kw_idx' = 0
    /\ kw_failed' = {}
    /\ merged' = NoResults
    /\ rerank_outcome' = "none"
    /\ rerank_scores' = <<>>
    /\ results' = NoResults
    /\ store_queries' = <<>>
    /\ calls' = calls + 1
    /\ UNCHANGED notQueryVars
    /\ UNCHANGED <<store, loads>>

\* use_hybrid_search is False: the standard vector search
QueryVectorOnly ==
    /\ qpc = "called"
    /\ ~use_hybrid_search
    /\ results' = StoreQuery(store, VectorOnlyLimit(n_results), NoFilter)
    /\ store_queries' = Append(store_queries,
                               [n |-> VectorOnlyLimit(n_results), filter |-> NoFilter])
    /\ qpc' = "done"
    /\ UNCHANGED notQueryVars
    /\ UNCHANGED <<store, query, n_results, use_hybrid_search, use_reranking,
                   all_results, keywords, kw_idx, kw_failed, merged, rerank_outcome,
                   rerank_scores,                    calls, loads>>

\* the vector search of hybrid search, and the keywords of the query
QueryHybridVector ==
    /\ qpc = "called"
    /\ use_hybrid_search
    /\ all_results' = StoreQuery(store, HybridLimit(n_results), NoFilter)
    /\ store_queries' = Append(store_queries,
                               [n |-> HybridLimit(n_results), filter |-> NoFilter])
    /\ keywords' = TopKeywords(query)
    /\ kw_idx' = 0
    /\ qpc' = "keywords"
    /\ UNCHANGED notQueryVars
    /\ UNCHANGED <<store, query, n_results, use_hybrid_search, use_reranking,
                   kw_failed, merged, rerank_outcome, rerank_scores, results, calls, loads>>

\* the first collection.query of the call raises: nothing catches it
QueryStoreError ==
    /\ qpc = "called"
    /\ store_queries' = Append(store_queries,
          [n |-> IF use_hybrid_search THEN HybridLimit(n_results)
                  ELSE VectorOnlyLimit(n_results),
           filter |-> NoFilter])
    /\ qpc' = "raised"
    /\ UNCHANGED notQueryVars
    /\ UNCHANGED <<store, query, n_results, use_hybrid_search, use_reranking,
                   all_results, keywords, kw_idx, kw_failed, merged, rerank_outcome,
                   rerank_scores,                    results, calls, loads>>

\* for keyword in keywords[:3]: the sub-query answers and its hits are merged
QueryKeyword ==
    /\ qpc = "keywords"
    /\ kw_idx < Len(keywords)
    /\ all_results' = MergeHits(all_results,
                                StoreQuery(store, KeywordLimit(n_results),
                                           At(keywords, kw_idx)), 1)
    /\ store_queries' = Append(store_queries,
          [n |-> KeywordLimit(n_results), filter |-> At(keywords, kw_idx)])
    /\ kw_idx' = kw_idx + 1
    /\ UNCHANGED notQueryVars
    /\ UNCHANGED <<store, query, n_results, use_hybrid_search, use_reranking, qpc,
                   keywords, kw_failed, merged, rerank_outcome, rerank_scores, results,
                   calls, loads>>

\* the sub-query raises: the except branch prints, the loop goes on
QueryKeywordError ==
    /\ qpc = "keywords"
    /\ kw_idx < Len(keywords)
    /\ store_queries' = Append(store_queries,
          [n |-> KeywordLimit(n_results), filter |-> At(keywords, kw_idx)])
    /\ kw_failed' = kw_failed \cup {kw_idx}
    /\ kw_idx' = KeywordAfterError(kw_idx, keywords)
    /\ UNCHANGED notQueryVars
    /\ UNCHANGED <<store, query, n_results, use_hybrid_search, use_reranking, qpc,
                   all_results, keywords, merged, rerank_outcome, rerank_scores, results,
                   calls, loads>>

\* results = all_results; the reranking block is entered or not
QueryMerged ==
    /\ qpc = "keywords"
    /\ kw_idx >= Len(keywords)
    /\ merged' = all_results
    /\ IF use_reranking /\ Len(all_results.documents) > 0
       THEN /\ qpc' = "rerank"
            /\ UNCHANGED results
       ELSE /\ qpc' = "done"
            /\ results' = all_results
    /\ UNCHANGED notQueryVars
    /\ UNCHANGED <<store, query, n_results, use_hybrid_search, use_reranking,
                   all_results, keywords, kw_idx, kw_failed, rerank_outcome, rerank_scores,
                   store_queries, calls, loads>>

\* from sentence_transformers import CrossEncoder raises
QueryRerankImportError ==
    /\ qpc = "rerank"
    /\ results' = AfterRerankError(all_results, n_results)
    /\ rerank_outcome' = "import error"
    /\ qpc' = "done"
    /\ UNCHANGED notQueryVars
    /\ UNCHANGED <<store, query, n_results, use_hybrid_search, use_reranking,
                   all_results, keywords, kw_idx, kw_failed, merged, rerank_scores,
                   store_queries, calls, loads>>

\* no more documents than requested: nothing is reranked
QueryRerankSkipped ==
    /\ qpc = "rerank"
    /\ ~(Len(all_results.documents) > n_results)
    /\ results' = all_results
    /\ rerank_outcome' = "skipped"
    /\ qpc' = "done"
    /\ UNCHANGED notQueryVars
    /\ UNCHANGED <<store, query, n_results, use_hybrid_search, use_reranking,
                   all_results, keywords, kw_idx, kw_failed, merged, rerank_scores,
                   store_queries, calls, loads>>

\* CrossEncoder(...) raises
QueryRerankLoadError ==
    /\ qpc = "rerank"
    /\ Len(all_results.documents) > n_results
    /\ results' = AfterRerankError(all_results, n_results)
    /\ rerank_outcome' = "load error"
    /\ qpc' = "done"
    /\ UNCHANGED notQueryVars
    /\ UNCHANGED <<store, query, n_results, use_hybrid_search, use_reranking,
                   all_results, keywords, kw_idx, kw_failed, merged, rerank_scores,
                   store_queries, calls, loads>>

\* reranker.predict(pairs) raises
QueryRerankPredictError ==
    /\ qpc = "rerank"
    /\ Len(all_results.documents) > n_results
    /\ loads' = loads + 1
    /\ results' = AfterRerankError(all_results, n_results)
    /\ rerank_outcome' = "predict error"
    /\ qpc' = "done"
    /\ UNCHANGED notQueryVars
    /\ UNCHANGED <<store, query, n_results, use_hybrid_search, use_reranking,
                   all_results, keywords, kw_idx, kw_failed, merged, rerank_scores,
                   store_queries, calls>>

\* the model is loaded, scores the pairs and the four lists are reordered
QueryRerank ==
    /\ qpc = "rerank"
    /\ Len(all_results.documents) > n_results
    /\ loads' = loads + 1
    /\ \E kind \in ScoreKinds :
          /\ rerank_scores' = Scores(kind, all_results)
          /\ \E idx \in ArgSorts(Scores(kind, all_results)) :
                results' = Reordered(all_results, idx, n_results)
    /\ rerank_outcome' = "reranked"
    /\ qpc' = "done"
    /\ UNCHANGED notQueryVars
    /\ UNCHANGED <<store, query, n_results, use_hybrid_search, use_reranking,
                   all_results, keywords, kw_idx, kw_failed, merged, store_queries,
                   calls>>

NextQuery ==
    \/ QueryCall
    \/ QueryVectorOnly
    \/ QueryHybridVector
    \/ QueryStoreError
    \/ QueryKeyword
    \/ QueryKeywordError
    \/ QueryMerged
    \/ QueryRerankImportError
    \/ QueryRerankSkipped
    \/ QueryRerankLoadError
    \/ QueryRerankPredictError
    \/ QueryRerank

SpecQuery == InitQuery /\ [][NextQuery]_vars

(***************************************************************************)
(* Properties of query_dataset                                             *)
(***************************************************************************)
IdSet(r) == Range(r.ids)
RerankErrors == {"import error", "load error", "predict error"}

\* C7: with no keyword-search error, the ids hybrid search returns (the
\* merged vector and keyword candidates) include every id that vector-only
\* search returns for the same query and n_results.
C7_HybridSuperset ==
    (qpc = "done" /\ use_hybrid_search /\ ~use_reranking /\ kw_failed = {}) =>
        IdSet(StoreQuery(store, n_results, NoFilter)) \subseteq IdSet(results)

\* C7, for the values of n_results the vector query of hybrid search is not
\* capped below: holds.
C7_HybridSupersetUpToCap ==
    (qpc = "done" /\ use_hybrid_search /\ ~use_reranking /\ kw_failed = {}
       /\ n_results <= MaxVectorResults) =>
        IdSet(StoreQuery(store, n_results, NoFilter)) \subseteq IdSet(results)

\* C8: when the cross-encoder fails (import, model load or scoring), the
\* call returns normally and its four lists are those of the merged
\* candidates, in the same order, as a call without reranking returns them.
C8_RerankFailOpen ==
    /\ (rerank_outcome \in RerankErrors) => (qpc = "done" /\ results = merged)
    /\ (qpc = "done" /\ use_hybrid_search /\ ~use_reranking) => results = merged
C8_Witness ==
    /\ qpc = "done"
    /\ rerank_outcome = "predict error"
    /\ Len(merged.ids) > HybridLimit(n_results)
    /\ results = merged
    /\ \E i \in 1..Len(results.distances) : results.distances[i].pow > 0

(***************************************************************************)
(* create_dataset and _add_to_dataset: pure parts                          *)
(*                                                                         *)
(* A chunk is a string of which the indexing code reads the length; the    *)
(* model keeps the length and, in place of the characters, the file and    *)
(* the position the chunk comes from, and what the legal patterns do on    *)
(* it: "none" (no pattern matches), "found" (some pattern matches) or      *)
(* "error" (findall raises, as it does on a chunk that is not a str).      *)
(* A file name and an id are sequences of characters.                      *)
(***************************************************************************)
BatchSize == 100
MinChunkLen == 100

\* number of characters of the model's uuid4 strings (36 in Python)
UuidWidth == 3

DigitChar(d) == <<"0", "1", "2", "3", "4", "5", "6", "7", "8", "9">>[d + 1]

\* str(n) for n >= 0
RECURSIVE Str(_)
Str(n) == IF n < 10 THEN <<DigitChar(n)>> ELSE Str(n \div 10) \o <<DigitChar(n % 10)>>

RECURSIVE ZeroPad(_, _)
ZeroPad(s, w) == IF Len(s) >= w THEN s ELSE ZeroPad(<<"0">> \o s, w)

\* str(uuid.uuid4()) for the u-th value drawn: fixed width, never drawn before
Uuid4(u) == ZeroPad(Str(u), UuidWidth)

ChunkIdNoUuid(filename, i, u) == filename \o <<"_">> \o Str(i)

\* f"{filename}_{i}_{uuid.uuid4()}"
ChunkId(filename, i, u) == filename \o <<"_">> \o Str(i) \o <<"_">> \o Uuid4(u)

\* the indices i of enumerate(chunks) that are not skipped, in order
Eligible(chunks) ==
    SelectSeq([k \in 1..Len(chunks) |-> k - 1],
              LAMBDA i : ~(At(chunks, i).length < MinChunkLen))

\* the three lists create_dataset builds for one file
CreateDocuments(chunks) == [k \in 1..Len(Eligible(chunks)) |-> At(chunks, Eligible(chunks)[k])]

\* chunk_metadata: legal_metadata is set only if a pattern matched
ChunkMetadata(filename, chunks, i) ==
    IF At(chunks, i).legal = "found"
    THEN [source |-> filename, chunk_index |-> i,
          legal_metadata |-> <<"legal metadata of", At(chunks, i).file, At(chunks, i).ordinal>>]
    ELSE [source |-> filename, chunk_index |-> i]
CreateMetadatas(filename, chunks) ==
    [k \in 1..Len(Eligible(chunks)) |-> ChunkMetadata(filename, chunks, Eligible(chunks)[k])]

\* the metadata _chunk_text built for a chunk (a legal section when a section
\* marker matches in it) before it returned the texts alone:
\* final_chunks = [item["text"] for item in chunks_with_metadata]
ChunkerMetadata(chunk) ==
    IF chunk.legal = "found"
    THEN [type |-> "legal_section", section_id |-> <<"Article", chunk.ordinal + 1>>,
          section_num |-> chunk.ordinal + 1, length |-> chunk.length]
    ELSE [type |-> "paragraph", length |-> chunk.length]

\* a pattern's findall raises on a chunk that is not skipped
ExtractionFails(chunks) ==
    \E k \in 1..Len(Eligible(chunks)) : At(chunks, Eligible(chunks)[k]).legal = "error"
\* the number of chunks appended to the lists before findall raises
AppendedBeforeError(chunks) ==
    Min({k \in 1..Len(Eligible(chunks)) : At(chunks, Eligible(chunks)[k]).legal = "error"}) - 1
CreateIds(filename, chunks, drawn) ==
    [k \in 1..Len(Eligible(chunks)) |-> ChunkId(filename, Eligible(chunks)[k], drawn + k)]

\* the metadata _add_to_dataset attaches
SecureMetadatas(source, chunks) ==
    [k \in 1..Len(Eligible(chunks)) |->
        [source |-> source, encrypted_id |-> "None", user_id |-> "None",
         chunk_index |-> Eligible(chunks)[k], page |-> Eligible(chunks)[k]]]

BatchEndShort(i, n) == Min({i + BatchSize - 1, n})

\* end_idx = min(i + batch_size, len(documents))
BatchEnd(i, n) == Min({i + BatchSize, n})

\* the collection.add call for the batch starting at i
AddCall(p, c, ok) ==
    [caller |-> p, file_no |-> c.file_no,
     documents |-> Slice(c.documents, c.i, BatchEnd(c.i, Len(c.documents))),
     metadatas |-> Slice(c.metadatas, c.i, BatchEnd(c.i, Len(c.documents))),
     ids |-> Slice(c.ids, c.i, BatchEnd(c.i, Len(c.documents))),
     ok |-> ok]

\* collection.add(documents=..., metadatas=..., ids=...) that succeeds
Entries(call) ==
    [k \in 1..Len(call.ids) |->
        [id |-> call.ids[k], document |-> call.documents[k], metadata |-> call.metadatas[k]]]
Added(coll, call) == coll \o Entries(call)

AfterAddErrorNextBatch(c) == [c EXCEPT !.i = @ + BatchSize]

\* except Exception as e: print(...): the locals when the loop over the
\* files goes on
AfterAddError(c) == [c EXCEPT !.pc = "files", !.file_no = @ + 1]

StoreAfterErrorRolledBack(coll, c) ==
    SelectSeq(coll, LAMBDA e : e.id \notin Range(c.ids))

\* the collection after an add call of create_dataset or _add_to_dataset
\* has raised: neither function deletes anything
StoreAfterError(coll, c) == coll

(***************************************************************************)
(* Inputs of the indexing calls                                            *)
(***************************************************************************)
MaxChunks == 201

FileA == <<"a">>
FileB == <<"b">>
FileC == <<"c">>
FileD == <<"d">>
\* process_document raises for FileC
Readable == {FileA, FileB, FileD}

\* numbers of chunks of at least 100 characters, around the batch boundaries
ChunkCounts == (0..2) \cup (98..102) \cup {150} \cup (198..MaxChunks)
\* "mixed" puts a chunk under 100 characters before every ten others
Layouts == {"long", "mixed"}
ShortEvery == 11
IsShortChunk(layout, j) == layout = "mixed" /\ j % ShortEvery = 0
TotalChunks(n, layout) ==
    IF layout = "mixed" THEN n + (n \div (ShortEvery - 1)) + 1 ELSE n
ChunkLength(layout, j) ==
    IF IsShortChunk(layout, j) THEN MinChunkLen - 1 ELSE MinChunkLen + (j % 3)
ChunksOf(f, n, layout) ==
    [j \in 1..TotalChunks(n, layout) |->
        [file |-> f, ordinal |-> j - 1, length |-> ChunkLength(layout, j - 1),
         legal |-> "none"]]

\* FileB has three chunks, the middle one under 100 characters and a legal
\* pattern matching in the first; FileD has three chunks, a legal pattern
\* matching in the first and findall raising on the second
Directory(n, layout) ==
    [f \in Readable |->
        CASE f = FileA -> ChunksOf(FileA, n, layout)
          [] f = FileB -> [ChunksOf(FileB, 3, "long") EXCEPT ![2].length = 40,
                                                             ![1].legal = "found"]
          [] f = FileD -> [ChunksOf(FileD, 3, "long") EXCEPT ![1].legal = "found",
                                                             ![2].legal = "error"]]

FileLists ==
    {<<>>, <<FileA>>, <<FileA, FileB>>, <<FileC, FileA>>, <<FileA, FileA>>, <<FileD, FileB>>}

\* two processes index a two-batch file concurrently
ConcurrentChunkCount == BatchSize + 1
ConcurrentFileLists == {<<FileA>>, <<FileB, FileA>>}
FileListsFor(ps) == IF ps = Procs THEN ConcurrentFileLists ELSE FileLists

(***************************************************************************)
(* create_dataset and _add_to_dataset as a state machine: each process in  *)
(* callers makes one call; collection.add is one step                      *)
(***************************************************************************)
InitIndex ==
    /\ \/ /\ callers = {1}
          /\ \E n \in ChunkCounts, layout \in Layouts :
                documents_dir = Directory(n, layout)
       \/ /\ callers = Procs
          /\ documents_dir = Directory(ConcurrentChunkCount, "long")
    /\ indexer = [p \in Procs |-> NoCall]
    /\ uuid_count = 0
    /\ collection = <<>>
    /\ add_calls = <<>>
    /\ store = <<>>
    /\ QueryIdle
    /\ ChunkIdle

CurrentFile(c) == At(c.file_paths, c.file_no)

\* create_dataset is called: get_or_create_collection, glob, the two counters
IndexCreateDataset(p) ==
    /\ p \in callers
    /\ indexer[p].pc = "idle"
    /\ \E paths \in FileListsFor(callers) :
          indexer' = [indexer EXCEPT ![p] =
              [@ EXCEPT !.pc = "files", !.kind = "create_dataset",
                        !.file_paths = paths, !.file_no = 0,
                        !.doc_count = 0, !.chunk_count = 0]]
    /\ UNCHANGED <<documents_dir, callers, uuid_count, collection, add_calls>>
    /\ UNCHANGED notIndexVars

\* the loop takes the next file and process_document raises: the handler
\* prints and the loop goes on
IndexProcessError(p) ==
    /\ indexer[p].pc = "files"
    /\ indexer[p].file_no < Len(indexer[p].file_paths)
    /\ CurrentFile(indexer[p]) \notin Readable
    /\ indexer' = [indexer EXCEPT ![p] =
          [@ EXCEPT !.filename = CurrentFile(indexer[p]), !.file_no = @ + 1]]
    /\ UNCHANGED <<documents_dir, callers, uuid_count, collection, add_calls>>
    /\ UNCHANGED notIndexVars

\* process_document returns no chunk: continue
IndexEmptyDocument(p) ==
    /\ indexer[p].pc = "files"
    /\ indexer[p].file_no < Len(indexer[p].file_paths)
    /\ CurrentFile(indexer[p]) \in Readable
    /\ documents_dir[CurrentFile(indexer[p])] = <<>>
    /\ indexer' = [indexer EXCEPT ![p] =
          [@ EXCEPT !.filename = CurrentFile(indexer[p]), !.file_no = @ + 1]]
    /\ UNCHANGED <<documents_dir, callers, uuid_count, collection, add_calls>>
    /\ UNCHANGED notIndexVars

\* the chunks of the next file are filtered and given ids and metadata
IndexPrepare(p) ==
    /\ indexer[p].pc = "files"
    /\ indexer[p].file_no < Len(indexer[p].file_paths)
    /\ CurrentFile(indexer[p]) \in Readable
    /\ LET filename == CurrentFile(indexer[p])
           chunks == documents_dir[filename]
       IN  /\ chunks # <<>>
           /\ ~ExtractionFails(chunks)
           /\ indexer' = [indexer EXCEPT ![p] =
                 [@ EXCEPT !.pc = "batches", !.filename = filename,
                           !.documents = CreateDocuments(chunks),
                           !.metadatas = CreateMetadatas(filename, chunks),
                           !.ids = CreateIds(filename, chunks, uuid_count),
                           !.i = 0]]
           /\ uuid_count' = uuid_count + Len(Eligible(chunks))
    /\ UNCHANGED <<documents_dir, callers, collection, add_calls>>
    /\ UNCHANGED notIndexVars

\* findall raises on a chunk of the next file: the handler of the file
\* loop prints and the loop goes on with the next file; the lists hold
\* the chunks before that one, and nothing of the file is added
IndexExtractionError(p) ==
    /\ indexer[p].pc = "files"
    /\ indexer[p].file_no < Len(indexer[p].file_paths)
    /\ CurrentFile(indexer[p]) \in Readable
    /\ LET filename == CurrentFile(indexer[p])
           chunks == documents_dir[filename]
           n == AppendedBeforeError(chunks)
       IN  /\ chunks # <<>>
           /\ ExtractionFails(chunks)
           /\ indexer' = [indexer EXCEPT ![p] =
                 [@ EXCEPT !.filename = filename,
                           !.documents = Slice(CreateDocuments(chunks), 0, n),
                           !.metadatas = Slice(CreateMetadatas(filename, chunks), 0, n),
                           !.ids = Slice(CreateIds(filename, chunks, uuid_count), 0, n),
                           !.file_no = @ + 1]]
           /\ uuid_count' = uuid_count + n + 1
    /\ UNCHANGED <<documents_dir, callers, collection, add_calls>>
    /\ UNCHANGED notIndexVars

\* _add_to_dataset is called with the chunks of one document
IndexAddToDataset(p) ==
    /\ p \in callers
    /\ indexer[p].pc = "idle"
    /\ \E source \in Readable :
          LET chunks == documents_dir[source]
          IN  /\ indexer' = [indexer EXCEPT ![p] =
                    [@ EXCEPT !.pc = "batches", !.kind = "_add_to_dataset",
                              !.filename = source,
                              !.documents = CreateDocuments(chunks),
                              !.metadatas = SecureMetadatas(source, chunks),
                              !.ids = CreateIds(source, chunks, uuid_count),
                              !.i = 0]]
              /\ uuid_count' = uuid_count + Len(Eligible(chunks))
    /\ UNCHANGED <<documents_dir, callers, collection, add_calls>>
    /\ UNCHANGED notIndexVars

\* one pass of the batch loop: collection.add stores the batch
IndexAdd(p) ==
    /\ indexer[p].pc = "batches"
    /\ indexer[p].i < Len(indexer[p].documents)
    /\ add_calls' = Append(add_calls, AddCall(p, indexer[p], TRUE))
    /\ collection' = Added(collection, AddCall(p, indexer[p], TRUE))
    /\ indexer' = [indexer EXCEPT ![p] = [@ EXCEPT !.i = @ + BatchSize]]
    /\ UNCHANGED <<documents_dir, callers, uuid_count>>
    /\ UNCHANGED notIndexVars

\* collection.add raises in create_dataset: the handler prints, the rest
\* of the file is dropped and the loop goes on with the next file
IndexAddError(p) ==
    /\ indexer[p].pc = "batches"
    /\ indexer[p].kind = "create_dataset"
    /\ indexer[p].i < Len(indexer[p].documents)
    /\ add_calls' = Append(add_calls, AddCall(p, indexer[p], FALSE))
    /\ collection' = StoreAfterError(collection, indexer[p])
    /\ indexer' = [indexer EXCEPT ![p] = AfterAddError(indexer[p])]
    /\ UNCHANGED <<documents_dir, callers, uuid_count>>
    /\ UNCHANGED notIndexVars

\* collection.add raises in _add_to_dataset: the exception leaves the call
IndexAddRaise(p) ==
    /\ indexer[p].pc = "batches"
    /\ indexer[p].kind = "_add_to_dataset"
    /\ indexer[p].i < Len(indexer[p].documents)
    /\ add_calls' = Append(add_calls, AddCall(p, indexer[p], FALSE))
    /\ collection' = StoreAfterError(collection, indexer[p])
    /\ indexer' = [indexer EXCEPT ![p] = [@ EXCEPT !.pc = "raised"]]
    /\ UNCHANGED <<documents_dir, callers, uuid_count>>
    /\ UNCHANGED notIndexVars

\* the batch loop of create_dataset is over: the file is counted
IndexFileDone(p) ==
    /\ indexer[p].pc = "batches"
    /\ indexer[p].kind = "create_dataset"
    /\ ~(indexer[p].i < Len(indexer[p].documents))
    /\ indexer' = [indexer EXCEPT ![p] =
          [@ EXCEPT !.pc = "files", !.file_no = @ + 1,
                    !.doc_count = @ + 1,
                    !.chunk_count = @ + Len(indexer[p].documents)]]
    /\ UNCHANGED <<documents_dir, callers, uuid_count, collection, add_calls>>
    /\ UNCHANGED notIndexVars

\* return doc_count, chunk_count
IndexReturn(p) ==
    /\ indexer[p].pc = "files"
    /\ ~(indexer[p].file_no < Len(indexer[p].file_paths))
    /\ indexer' = [indexer EXCEPT ![p] =
          [@ EXCEPT !.pc = "returned",
                    !.returned = <<indexer[p].doc_count, indexer[p].chunk_count>>]]
    /\ UNCHANGED <<documents_dir, callers, uuid_count, collection, add_calls>>
    /\ UNCHANGED notIndexVars

\* return 1, len(documents)
IndexSecureReturn(p) ==
    /\ indexer[p].pc = "batches"
    /\ indexer[p].kind = "_add_to_dataset"
    /\ ~(indexer[p].i < Len(indexer[p].documents))
    /\ indexer' = [indexer EXCEPT ![p] =
          [@ EXCEPT !.pc = "returned", !.returned = <<1, Len(indexer[p].documents)>>]]
    /\ UNCHANGED <<documents_dir, callers, uuid_count, collection, add_calls>>
    /\ UNCHANGED notIndexVars

NextIndex ==
    \/ \E p \in Procs : IndexCreateDataset(p)
    \/ \E p \in Procs : IndexProcessError(p)
    \/ \E p \in Procs : IndexEmptyDocument(p)
    \/ \E p \in Procs : IndexPrepare(p)
    \/ \E p \in Procs : IndexExtractionError(p)
    \/ \E p \in Procs : IndexAddToDataset(p)
    \/ \E p \in Procs : IndexAdd(p)
    \/ \E p \in Procs : IndexAddError(p)
    \/ \E p \in Procs : IndexAddRaise(p)
    \/ \E p \in Procs : IndexFileDone(p)
    \/ \E p \in Procs : IndexReturn(p)
    \/ \E p \in Procs : IndexSecureReturn(p)

SpecIndex == InitIndex /\ [][NextIndex]_vars

(***************************************************************************)
(* Properties of create_dataset and _add_to_dataset                        *)
(***************************************************************************)
RECURSIVE Flatten(_)
Flatten(ss) == IF ss = <<>> THEN <<>> ELSE Head(ss) \o Flatten(Tail(ss))

\* the entries of the collection: what the add calls that succeeded stored
StoredIds == Flatten([k \in 1..Len(add_calls) |->
                        IF add_calls[k].ok THEN add_calls[k].ids ELSE <<>>])
StoredMetadatas == Flatten([k \in 1..Len(add_calls) |->
                        IF add_calls[k].ok THEN add_calls[k].metadatas ELSE <<>>])

\* the add calls process p made for the file it is working on
FileAdds(p) ==
    SelectSeq(add_calls, LAMBDA a : a.caller = p /\ a.file_no = indexer[p].file_no)

\* process p has issued every batch of its current file
BatchesIssued(p) ==
    /\ indexer[p].pc = "batches"
    /\ ~(indexer[p].i < Len(indexer[p].documents))

Ceil(n, d) == (n + d - 1) \div d

\* C9: whatever the order and interleaving of the indexing calls on one
\* collection, re-ingestion of a file included, no two entries of the
\* collection have the same id.
C9_UniqueIds == Cardinality(Range(StoredIds)) = Len(StoredIds)
C9_Witness ==
    /\ callers = Procs
    /\ \A p \in Procs : indexer[p].pc = "returned" /\ indexer[p].kind = "create_dataset"
    /\ \E j, k \in 1..Len(StoredIds) :
          /\ j # k
          /\ StoredMetadatas[j] = StoredMetadatas[k]
    /\ \E j, k \in 1..Len(add_calls) :
          /\ j + 1 < k
          /\ add_calls[j].caller = add_calls[k].caller
          /\ add_calls[j].file_no = add_calls[k].file_no
          /\ add_calls[j + 1].caller # add_calls[j].caller

\* C10: a document with n chunks of at least 100 characters is stored by
\* exactly ceil(n / 100) add calls, each but the last of 100 entries, whose
\* concatenation in call order is the sequence of those chunks in their
\* original order; no add call is made when n = 0.
C10_Batches ==
    \A p \in Procs :
        BatchesIssued(p) =>
            LET adds == FileAdds(p)
                chunks == documents_dir[indexer[p].filename]
                eligible == [k \in 1..Len(Eligible(chunks)) |-> At(chunks, Eligible(chunks)[k])]
                n == Len(eligible)
            IN  /\ Len(adds) = Ceil(n, BatchSize)
                /\ \A k \in 1..Len(adds) - 1 : Len(adds[k].documents) = BatchSize
                /\ \A k \in 1..Len(adds) :
                      /\ adds[k].ok
                      /\ Len(adds[k].ids) = Len(adds[k].documents)
                      /\ Len(adds[k].metadatas) = Len(adds[k].documents)
                      /\ Len(adds[k].documents) \in 1..BatchSize
                /\ Flatten([k \in 1..Len(adds) |-> adds[k].documents]) = eligible
                /\ \A k \in 1..n : eligible[k].length >= MinChunkLen
C10_Witness ==
    \E p \in Procs :
        /\ BatchesIssued(p)
        /\ Len(documents_dir[indexer[p].filename]) > Len(indexer[p].documents)
        /\ Len(indexer[p].documents) = 150
        /\ Len(FileAdds(p)) = 2
        /\ Len(FileAdds(p)[1].documents) = 100
        /\ Len(FileAdds(p)[2].documents) = 50

CollectionIds == {collection[k].id : k \in 1..Len(collection)}
SameDocument(a, b) == a.caller = b.caller /\ a.file_no = b.file_no

\* C11: when the add call for a batch of a document fails, no later batch
\* of that document is attempted, and the entries of the earlier batches of
\* that document are still in the collection.
C11_AbortNoRollback ==
    \A j \in 1..Len(add_calls) :
        ~add_calls[j].ok =>
            /\ \A k \in (j + 1)..Len(add_calls) : ~SameDocument(add_calls[j], add_calls[k])
            /\ \A k \in 1..(j - 1) :
                  SameDocument(add_calls[j], add_calls[k]) =>
                      /\ add_calls[k].ok
                      /\ Range(add_calls[k].ids) \subseteq CollectionIds
            /\ Range(add_calls[j].ids) \cap CollectionIds = {}
C11_Witness ==
    \E p \in Procs :
        /\ indexer[p].pc = "returned"
        /\ indexer[p].kind = "create_dataset"
        /\ Len(indexer[p].documents) > 2 * BatchSize
        /\ Len(add_calls) = 2
        /\ add_calls[1].ok /\ ~add_calls[2].ok
        /\ SameDocument(add_calls[1], add_calls[2])
        /\ Len(collection) = BatchSize

\* what create_dataset returns for the files paths when no add call fails
RECURSIVE FailureFreeResult(_, _)
FailureFreeResult(dir, paths) ==
    IF paths = <<>> THEN <<0, 0>>
    ELSE LET rest == FailureFreeResult(dir, Tail(paths))
             f == Head(paths)
         IN  IF f \in Readable /\ dir[f] # <<>> /\ ~ExtractionFails(dir[f])
             THEN <<rest[1] + 1, rest[2] + Len(Eligible(dir[f]))>>
             ELSE rest

WriteFailed(p) == \E k \in 1..Len(add_calls) : add_calls[k].caller = p /\ ~add_calls[k].ok

\* C12: a failed batch add is surfaced to the caller of the indexing call:
\* the call raises, or returns a result that no call without a failed add
\* returns.
C12_WriteFailureSurfaced ==
    \A p \in Procs :
        (WriteFailed(p) /\ indexer[p].pc \in {"returned", "raised"}) =>
            \/ indexer[p].pc = "raised"
            \/ \A paths \in FileLists :
                  indexer[p].returned # FailureFreeResult(documents_dir, paths)

\* the entries of the collection that process p stored for chunk i of f
EntriesOf(p, f, i) ==
    {k \in 1..Len(collection) :
        /\ collection[k].metadata.source = f
        /\ collection[k].metadata.chunk_index = i
        /\ \E j \in 1..Len(add_calls) :
              add_calls[j].caller = p /\ collection[k].id \in Range(add_calls[j].ids)}

C13_IndexedWhenExtractionSucceeds ==
    \A p \in Procs :
        (indexer[p].kind = "create_dataset" /\ indexer[p].pc = "returned" /\ ~WriteFailed(p)) =>
            \A f \in Range(indexer[p].file_paths) \cap Readable :
                ~ExtractionFails(documents_dir[f]) =>
                    \A k \in 1..Len(Eligible(documents_dir[f])) :
                        EntriesOf(p, f, Eligible(documents_dir[f])[k]) # {}

\* the answers the store gives to the queries of a hybrid call
VectorHits == StoreQuery(store, HybridLimit(n_results), NoFilter)
KeywordHits(k) == StoreQuery(store, KeywordLimit(n_results), At(keywords, k))
Succeeded == {k \in 0..(Len(keywords) - 1) : k \notin kw_failed}
KeywordLoopOver == use_hybrid_search /\ qpc \in {"rerank", "done"}

\* C14: a keyword sub-query that fails does not fail the call: every
\* keyword is still queried, in order, and the merged candidates are the
\* vector hits and the hits of the keywords whose sub-query succeeded, and
\* nothing else.
C14_KeywordFailOpen ==
    /\ qpc = "raised" => kw_failed = {}
    /\ KeywordLoopOver =>
          /\ Len(store_queries) = 1 + Len(keywords)
          /\ \A k \in 0..(Len(keywords) - 1) :
                store_queries[k + 2] = [n |-> KeywordLimit(n_results), filter |-> At(keywords, k)]
          /\ IdSet(merged) = IdSet(VectorHits) \cup UNION {IdSet(KeywordHits(k)) : k \in Succeeded}
    /\ (KeywordLoopOver /\ qpc = "done" /\ ~use_reranking) => results = merged
C14_Witness ==
    /\ qpc = "done"
    /\ use_hybrid_search /\ ~use_reranking
    /\ Len(keywords) = MaxKeywords
    /\ kw_failed = {0}
    /\ IdSet(KeywordHits(0)) \ IdSet(results) # {}
    /\ IdSet(KeywordHits(2)) \ IdSet(VectorHits) # {}

\* the first keyword sub-query that succeeded and returned id, and the
\* position of id in its answer
FirstSource(id) == Min({k \in Succeeded : id \in IdSet(KeywordHits(k))})
RankIn(r, id) == Min({i \in 1..Len(r.ids) : r.ids[i] = id})
ReturnedBefore(a, b) ==
    \/ FirstSource(a) < FirstSource(b)
    \/ /\ FirstSource(a) = FirstSource(b)
       /\ RankIn(KeywordHits(FirstSource(a)), a) < RankIn(KeywordHits(FirstSource(a)), b)
StoreEntry(id) == CHOOSE e \in Range(store) : e.id = id

\* C15: in the merged candidates of a hybrid call, before reranking, the
\* vector hits come first, in their rank order, and the hits that only
\* keyword sub-queries found come after them, in the order the sub-queries
\* returned them; each position holds the id, document and metadata of one
\* entry.
C15_VectorHitsFirst ==
    KeywordLoopOver =>
        LET v == Len(VectorHits.ids)
        IN  /\ Len(merged.ids) >= v
            /\ SubSeq(merged.ids, 1, v) = VectorHits.ids
            /\ SubSeq(merged.documents, 1, v) = VectorHits.documents
            /\ SubSeq(merged.distances, 1, v) = VectorHits.distances
            /\ \A a \in (v + 1)..Len(merged.ids) :
                  /\ merged.ids[a] \notin IdSet(VectorHits)
                  /\ \A b \in (a + 1)..Len(merged.ids) :
                        ReturnedBefore(merged.ids[a], merged.ids[b])
            /\ \A a \in 1..Len(merged.ids) :
                  /\ merged.documents[a] = StoreEntry(merged.ids[a]).document
                  /\ merged.metadatas[a] = StoreEntry(merged.ids[a]).metadata
            /\ Len(merged.documents) = Len(merged.ids)
            /\ Len(merged.metadatas) = Len(merged.ids)
            /\ Len(merged.distances) = Len(merged.ids)
C15_Witness ==
    /\ KeywordLoopOver
    /\ Len(VectorHits.ids) >= 2
    /\ \E a, b \in (Len(VectorHits.ids) + 1)..Len(merged.ids) :
          /\ a < b
          /\ FirstSource(merged.ids[a]) < FirstSource(merged.ids[b])
          /\ merged.ids[a] > merged.ids[b]
    /\ \E a, b \in (Len(VectorHits.ids) + 1)..Len(merged.ids) :
          a < b /\ FirstSource(merged.ids[a]) = FirstSource(merged.ids[b])

\* the position in the merged candidates of the k-th returned candidate
MergedPosition(k) == RankIn(merged, results.ids[k])
Reranked == qpc = "done" /\ rerank_outcome = "reranked"

\* C16 (order): after a successful rerank the returned candidates are the
\* n_results best by cross-encoder score, by descending score.
C16_DescendingScore ==
    Reranked =>
        /\ \A k \in 1..(Len(results.ids) - 1) :
              rerank_scores[MergedPosition(k)] >= rerank_scores[MergedPosition(k + 1)]
        /\ \A k \in 1..Len(results.ids) :
              /\ results.documents[k] = merged.documents[MergedPosition(k)]
              /\ results.metadatas[k] = merged.metadatas[MergedPosition(k)]
              /\ results.distances[k] = merged.distances[MergedPosition(k)]
        /\ \A i \in 1..Len(merged.ids) :
              merged.ids[i] \notin IdSet(results) =>
                  \A k \in 1..Len(results.ids) :
                      rerank_scores[MergedPosition(k)] >= rerank_scores[i]

\* C16: after a successful rerank the returned candidates are ordered by
\* descending cross-encoder score, and candidates with equal scores keep
\* the relative order they had before reranking.
C16_StableRerank ==
    Reranked =>
        \A k \in 1..(Len(results.ids) - 1) :
            \/ rerank_scores[MergedPosition(k)] > rerank_scores[MergedPosition(k + 1)]
            \/ /\ rerank_scores[MergedPosition(k)] = rerank_scores[MergedPosition(k + 1)]
               /\ MergedPosition(k) < MergedPosition(k + 1)

\* C17: whatever use_hybrid_search and use_reranking are, and whether or
\* not reranking succeeds, a call returns at most n_results candidates.
C17_AtMostNResults ==
    qpc = "done" => Len(results.ids) <= n_results

\* C17 for the calls that return the vector-only answer or a reranked
\* list: holds.
C17_AtMostNResultsWhenTruncated ==
    (qpc = "done" /\ (~use_hybrid_search \/ rerank_outcome = "reranked")) =>
        Len(results.ids) <= n_results

\* C18: with use_hybrid_search = False a call issues exactly one store
\* query, with n_results as its limit and no document filter, returns its
\* answer as it is, issues no keyword sub-query and never loads or runs the
\* cross-encoder, whatever use_reranking is.
C18_VectorOnlyPassthrough ==
    /\ [](  (qpc = "done" /\ ~use_hybrid_search) =>
               /\ store_queries = <<[n |-> n_results, filter |-> NoFilter]>>
               /\ results = [ids       |-> [i \in 1..Min({n_results, Len(store)}) |-> store[i].id],
                             documents |-> [i \in 1..Min({n_results, Len(store)}) |-> store[i].document],
                             metadatas |-> [i \in 1..Min({n_results, Len(store)}) |-> store[i].metadata],
                             distances |-> [i \in 1..Min({n_results, Len(store)}) |-> store[i].distance]]
               /\ keywords = <<>>
               /\ rerank_outcome = "none" /\ rerank_scores = <<>>)
    /\ [][~use_hybrid_search' => loads' = loads]_vars
C18_Witness ==
    /\ qpc = "done"
    /\ ~use_hybrid_search /\ use_reranking
    /\ Len(store) > n_results
    /\ Len(results.ids) = n_results
    /\ n_results > 1
    /\ calls = 2 /\ loads = 1

\* C19: over the query_dataset calls of one process the cross-encoder
\* model is loaded at most once.
C19_ModelLoadedOnce == loads <= 1

\* C19, what holds instead: one load for every call that reaches predict.
C19_OneLoadPerCall == loads <= calls

C21_StartIncreases ==
    [][(cpc = "fallback" /\ chunk_size > chunk_overlap /\ chunk_overlap >= 0)
          => start' > start]_vars

\* what does hold: the start increases whenever the cut is not moved back by
\* chunk_size - chunk_overlap or more, in particular when no terminal is found
C21_StartIncreasesUnlessCutBack ==
    [][(cpc = "fallback"
        /\ WindowEnd(Head(subsections).text, start, chunk_size, chunk_overlap)
              > start + chunk_overlap)
          => start' > start]_vars

(***************************************************************************)
(* Further properties of query_dataset                                     *)
(***************************************************************************)
\* the distance the spec gives a keyword-only hit: 1.1 times the largest
\* distance of the vector hits (1.0 when there is no vector hit)
SyntheticDistance ==
    TimesOnePointOne(IF VectorHits.distances = <<>> THEN Dist(DefaultMaxDist, 0)
                     ELSE MaxDist(VectorHits.distances))
KeywordOnlyPositions == (Len(VectorHits.ids) + 1)..Len(merged.ids)
\* two distances are the same number
SameDistance(a, b) == DistLeq(a, b) /\ DistLeq(b, a)

\* C22: every keyword-only hit of the merged candidates has the distance
\* 1.1 * max(distances of the vector hits), which is strictly greater than
\* the distance of every vector hit, however many keyword-only hits were
\* appended before it.
C22_SyntheticDistance ==
    KeywordLoopOver =>
        \A a \in KeywordOnlyPositions :
            /\ SameDistance(merged.distances[a], SyntheticDistance)
            /\ \A v \in 1..Len(VectorHits.ids) :
                  ~DistLeq(merged.distances[a], VectorHits.distances[v])

\* C22, what holds instead: the first keyword-only hit gets that distance,
\* each later one 1.1 times the distance of the one before it, and none is
\* smaller than a vector hit's.
C22_CompoundedDistance ==
    KeywordLoopOver =>
        \A a \in KeywordOnlyPositions :
            /\ SameDistance(merged.distances[a],
                              IF a = Len(VectorHits.ids) + 1 THEN SyntheticDistance
                              ELSE TimesOnePointOne(merged.distances[a - 1]))
            /\ \A v \in 1..Len(VectorHits.ids) :
                  DistLeq(VectorHits.distances[v], merged.distances[a])

\* the reranking block got as far as CrossEncoder(...)
CrossEncoderInvoked == rerank_outcome \in {"reranked", "predict error", "load error"}

\* C23: with hybrid search and reranking the cross-encoder is invoked only
\* when there are more merged candidates than n_results; after a successful
\* rerank each of the four lists has exactly n_results entries, position k
\* of every list holds the id, document, metadata and distance of one and
\* the same merged candidate, and no candidate is returned twice.
C23_RerankConsistent ==
    /\ [](CrossEncoderInvoked =>
             /\ use_hybrid_search /\ use_reranking
             /\ Len(merged.ids) > n_results)
    /\ [][loads' # loads =>
             /\ use_hybrid_search /\ use_reranking
             /\ Len(all_results.documents) > n_results]_vars
    /\ [](Reranked =>
             /\ Len(results.ids) = n_results
             /\ Len(results.documents) = n_results
             /\ Len(results.metadatas) = n_results
             /\ Len(results.distances) = n_results
             /\ \A k \in 1..n_results :
                   /\ results.ids[k] \in IdSet(merged)
                   /\ results.documents[k] = merged.documents[MergedPosition(k)]
                   /\ results.metadatas[k] = merged.metadatas[MergedPosition(k)]
                   /\ results.distances[k] = merged.distances[MergedPosition(k)]
             /\ Cardinality(IdSet(results)) = n_results
             /\ Cardinality(IdSet(merged)) = Len(merged.ids))
C23_Witness ==
    /\ Reranked
    /\ n_results >= 2
    /\ results.ids # SubSeq(merged.ids, 1, n_results)
    /\ \E k \in 1..n_results : results.ids[k] \notin IdSet(VectorHits)
    /\ \E k \in 1..n_results : results.ids[k] \in IdSet(VectorHits)

(***************************************************************************)
(* Further properties of _chunk_text: the units of steps 1 and 2           *)
(***************************************************************************)
\* the sentence groups among the subsections still to process
IsSentenceGroup(u) == u.metadata.type = "sentence_group"

\* C24: a sentence_group is longer than chunk_size only when it is a single
\* sentence that is itself longer than chunk_size; a group of two or more
\* sentences, joined by single spaces, has at most chunk_size characters.
C24_GroupFits ==
    \A k \in 1..Len(subsections) :
        (IsSentenceGroup(subsections[k]) /\ ~Fits(subsections[k].text, chunk_size))
            => subsections[k].metadata.sentence_count = 1

\* C24, what holds instead: the sentences of a group of two or more have at
\* most chunk_size characters between them, the joining spaces not counted.
C24_GroupFitsWithoutSpaces ==
    \A k \in 1..Len(subsections) :
        (IsSentenceGroup(subsections[k]) /\ subsections[k].metadata.sentence_count > 1)
            => Len(subsections[k].text) - (subsections[k].metadata.sentence_count - 1)
                  <= chunk_size

\* the paragraphs of a text that are not empty once stripped
NonEmptyParagraphs(t) == Len(Paragraphs(RegexSplit(t)))
IsParagraph(u) == u.metadata.type = "paragraph"

\* C25: step 1 on a text of at least 100 characters with fewer than two
\* section markers tags units paragraph only if the split on blank lines
\* gives at least two non-empty paragraphs; otherwise its units are exactly
\* one full_text unit holding the entire text.
C25_ParagraphsOrFullText ==
    [][(cpc = "text" /\ cpc' = "section"
        /\ Len(SectionMatches(At(texts, text_idx))) < 2) =>
          LET t == At(texts, text_idx)
          IN  /\ (\E k \in 1..Len(sections') : IsParagraph(sections'[k]))
                    => NonEmptyParagraphs(t) >= 2
              /\ NonEmptyParagraphs(t) < 2 => sections' = FullText(t)]_vars

\* C25, what holds instead: the units are paragraphs as soon as the split
\* gives two pieces, empty ones included, and they are the non-empty
\* pieces, stripped: one, or none at all, when the other pieces are empty.
C25_ParagraphsWhenSplit ==
    [][(cpc = "text" /\ cpc' = "section"
        /\ Len(SectionMatches(At(texts, text_idx))) < 2) =>
          LET t == At(texts, text_idx)
          IN  IF Len(RegexSplit(t)) > 1
              THEN /\ Len(sections') = NonEmptyParagraphs(t)
                   /\ \A k \in 1..Len(sections') :
                         /\ IsParagraph(sections'[k])
                         /\ sections'[k].text # <<>>
              ELSE sections' = FullText(t)]_vars

\* the chunk the step just taken appended
LastChunk(cs) == cs[Len(cs)]
TaggedCharacterChunk(c) ==
    c.metadata.type = "character_chunk" \/ c.metadata.chunk_type = "character_chunk"

\* C26: every slice the fixed-width fallback emits is tagged character_chunk
\* and carries chunk_start and chunk_end with
\* 0 <= chunk_start < chunk_end <= len(parent), its text being the parent
\* unit's characters from chunk_start up to chunk_end and its length
\* chunk_end - chunk_start.
C26_CharacterChunkSpan ==
    [][cpc = "fallback" =>
          LET parent == Head(subsections).text
              c      == LastChunk(chunks_with_metadata')
              md     == c.metadata
          IN  /\ Len(chunks_with_metadata') = Len(chunks_with_metadata) + 1
              /\ TaggedCharacterChunk(c)
              /\ 0 <= md.chunk_start
              /\ md.chunk_start < md.chunk_end
              /\ md.chunk_end <= Len(parent)
              /\ c.text = SubSeq(parent, md.chunk_start + 1, md.chunk_end)
              /\ md.length = md.chunk_end - md.chunk_start]_vars

\* C26, what holds instead: the slice keeps the type of its parent and has
\* chunk_type character_chunk; chunk_start and chunk_end are the window as
\* computed, which may end after the parent (and, for a large overlap,
\* start before it); the text is parent[chunk_start:chunk_end] as Python
\* slices it and length is the length of that text.
C26_CharacterChunkSlice ==
    [][cpc = "fallback" =>
          LET parent == Head(subsections)
              c      == LastChunk(chunks_with_metadata')
              md     == c.metadata
          IN  /\ Len(chunks_with_metadata') = Len(chunks_with_metadata) + 1
              /\ md.chunk_type = "character_chunk"
              /\ md.type = parent.metadata.type
              /\ md.chunk_start = start
              /\ md.chunk_end <= start + chunk_size + 1
              /\ c.text = Slice(parent.text, md.chunk_start, md.chunk_end)
              /\ md.length = Len(c.text)
              /\ (md.chunk_start >= 0 /\ md.chunk_end <= Len(parent.text))
                    => md.length = md.chunk_end - md.chunk_start]_vars

(***************************************************************************)
(* Further properties of create_dataset and _add_to_dataset                *)
(***************************************************************************)
\* md holds every key of the chunker's metadata, with its value
Carries(md, chunker) ==
    \A key \in DOMAIN chunker : key \in DOMAIN md /\ md[key] = chunker[key]

\* C27: every entry written to the collection carries the chunker's
\* metadata of its chunk merged into its own, so that the entry of a chunk
\* cut from a legal section retains type, section_id and section_num.
C27_ChunkerMetadataStored ==
    \A k \in 1..Len(collection) :
        Carries(collection[k].metadata, ChunkerMetadata(collection[k].document))

\* C27, what holds instead: an entry's metadata has the keys source and
\* chunk_index, legal_metadata when a pattern matched in the text (page,
\* encrypted_id and user_id in _add_to_dataset), and no key of the chunker's
\* metadata.
C27_IndexerMetadataOnly ==
    \A k \in 1..Len(collection) :
        /\ {"source", "chunk_index"} \subseteq DOMAIN collection[k].metadata
        /\ DOMAIN collection[k].metadata
              \subseteq {"source", "chunk_index", "legal_metadata", "page",
                          "encrypted_id", "user_id"}
        /\ DOMAIN collection[k].metadata
              \cap DOMAIN ChunkerMetadata(collection[k].document) = {}

NoDuplicates(ids) == Cardinality(Range(ids)) = Len(ids)

\* C28: the id list a hybrid call merges and returns never holds an id
\* twice, also when an entry is returned by the vector query and by keyword
\* sub-queries, or by several keyword sub-queries.
C28_MergedIdsDistinct ==
    use_hybrid_search =>
        /\ NoDuplicates(all_results.ids)
        /\ NoDuplicates(merged.ids)
        /\ NoDuplicates(results.ids)
C28_Witness ==
    /\ qpc = "done"
    /\ use_hybrid_search
    /\ \E k \in Succeeded : IdSet(KeywordHits(k)) \cap IdSet(VectorHits) # {}
    /\ \E j, k \in Succeeded :
          /\ j < k
          /\ (IdSet(KeywordHits(j)) \cap IdSet(KeywordHits(k))) \ IdSet(VectorHits) # {}
    /\ Len(results.ids) > Len(VectorHits.ids)

(***************************************************************************)
(* Further properties of _chunk_text: what the splits keep                 *)
(***************************************************************************)
\* the characters of s that are not white space, in order
NonSpace(s) == SelectSeq(s, LAMBDA c : ~IsSpace(c))
UnitTexts(us) == Concat([k \in 1..Len(us) |-> us[k].text])
\* where the units of a split start: at the first marker when the split is
\* by markers, at the start of the text otherwise
FirstKept(ms) == IF Len(ms) > 1 THEN ms[1].start ELSE 0
SectionsStart(t) == FirstKept(SectionMatches(t))
SubsectionsStart(t) ==
    IF Len(SubsectionMatches(t)) > 1 THEN FirstKept(SubsectionMatches(t))
    ELSE FirstKept(NumberedMatches(t))

\* C29: for a text of at least 100 characters, the splits by section, by
\* subsection, by numbered item and by sentence drop no text: the units of
\* a split hold every non-white-space character of what was split, in
\* order, the text before the first marker included.
C29_NothingDropped ==
    /\ [][(cpc = "text" /\ cpc' = "section") =>
             NonSpace(UnitTexts(sections')) = NonSpace(At(texts, text_idx))]_vars
    /\ [][(cpc = "section" /\ cpc' = "subsection") =>
             NonSpace(UnitTexts(subsections')) = NonSpace(Head(sections).text)]_vars

\* C29, what holds instead: the units hold the non-white-space characters
\* from the first marker on; what precedes it is in no unit.
C29_KeptFromFirstMarker ==
    /\ [][(cpc = "text" /\ cpc' = "section") =>
             LET t == At(texts, text_idx)
             IN  NonSpace(UnitTexts(sections'))
                    = NonSpace(Slice(t, SectionsStart(t), Len(t)))]_vars
    /\ [][(cpc = "section" /\ cpc' = "subsection") =>
             LET t == Head(sections).text
             IN  NonSpace(UnitTexts(subsections'))
                    = NonSpace(Slice(t, SubsectionsStart(t), Len(t)))]_vars

\* the add calls of process p that stored their batch
StoredAdds(p) == SelectSeq(add_calls, LAMBDA a : a.caller = p /\ a.ok)
EntriesAddedBy(p) == Len(Flatten([k \in 1..Len(StoredAdds(p)) |-> StoredAdds(p)[k].ids]))
FilesAddedBy(p) == {StoredAdds(p)[k].file_no : k \in 1..Len(StoredAdds(p))}
CreateReturned(p) == indexer[p].kind = "create_dataset" /\ indexer[p].pc = "returned"

\* C30: the chunk_count create_dataset returns is the number of entries the
\* call added to the collection and its doc_count the number of files those
\* entries came from, also when a batch add fails part-way through a file.
C30_CountsMatchStore ==
    \A p \in Procs :
        CreateReturned(p) =>
            /\ indexer[p].returned[2] = EntriesAddedBy(p)
            /\ indexer[p].returned[1] = Cardinality(FilesAddedBy(p))

\* C30, what holds instead: chunk_count never exceeds the entries added and
\* equals them when no add of the call failed; a file with a failed add is
\* not counted, nor are the entries of its earlier batches, which stay in
\* the collection; doc_count also counts the files whose chunks are all
\* under 100 characters, which add nothing.
C30_CountsMatchWithoutFailure ==
    \A p \in Procs :
        CreateReturned(p) =>
            /\ indexer[p].returned[2] <= EntriesAddedBy(p)
            /\ ~WriteFailed(p) =>
                  /\ indexer[p].returned[2] = EntriesAddedBy(p)
                  /\ indexer[p].returned[1] >= Cardinality(FilesAddedBy(p))

====
